---- MODULE Spec2Model ----
(***************************************************************************)
(* A model of the image-gen-gallery backend: the in-memory rate limiter    *)
(* (app/core/rate_limit.py), the retried upstream calls and the streaming  *)
(* generators (app/services/openai_service.py) and the server-sent-event   *)
(* relays (app/routes/generation_routes.py, app/routes/editing_routes.py), *)
(* the metadata table and the image routes (app/services/image_service.py, *)
(* app/routes/image_routes.py), save_image_from_base64, and the handlers   *)
(* of POST /api/generate and POST /api/edit with their request checks      *)
(* (app/schemas, app/main.py).                                             *)
(*                                                                         *)
(* Each subsystem has its own specification over the same variables; the   *)
(* variables of the other subsystems stay at their initial values.         *)
(***************************************************************************)
EXTENDS Integers, Sequences, FiniteSets, TLC

VARIABLES
    \* ---- rate limiter (app/core/rate_limit.py) ----
    now,              \* the clock datetime.now() reads, in window units
    requests,         \* RateLimiter.requests: identifier -> list of timestamps
    lock,             \* RateLimiter.lock: its holder, or NoHolder
    max_requests,     \* the decorator's max_requests
    window_seconds,   \* the decorator's window_seconds
    pc,               \* task -> where the task is inside wrapper / check_rate_limit
    cur,              \* task -> the request the task is serving
    cleanup,          \* the cleanup_old_entries coroutine: asleep, or inside the lock
    history,          \* every answered request: identifier, time and result of its
                      \* check_rate_limit call, endpoint invocations, HTTP status
    calls,            \* number of requests started so far
    shortCleanup,     \* a cleanup ran with older_than_seconds < window_seconds
    \* ---- retried upstream calls (app/services/openai_service.py) ----
    fn,               \* the function invoked: "generate" or "edit"
    attempt_state,    \* where the retrying call is: idle, attempt, sleep, returned, raised
    attempt_number,   \* tenacity's retry_state.attempt_number
    upstream_calls,   \* number of client.responses.create calls made
    outcomes,         \* what each of those calls did, in order
    result,           \* what the invocation returned or raised to its caller
    waits,            \* the seconds slept between the attempts, in order
    \* ---- streaming generators and SSE relays ----
    mode,             \* "route": a streaming route over the service generator;
                      \* "stub": a streaming route over a patched-in chunk stream;
                      \* "direct": a caller iterating the service generator itself
    stream_fn,        \* the generator / route pair: "generate" or "edit"
    svc,              \* where the service generator is suspended
    partial_count,    \* the generator's partial_count
    created,          \* client.responses.create has been called
    events_read,      \* number of upstream events read
    failed,           \* the upstream call or event stream has raised
    image_event,      \* the event that gave the image, its output as far as it was looped over
    pending,          \* the chunk the generator yielded and the consumer has not handled
    chunks,           \* every chunk the chunk stream yielded, in order
    route,            \* where the route's generate() is suspended
    outbox,           \* the SSE event generate() yielded and the response has not sent
    collected_image_data,   \* generate()'s collected_image_data
    sse,              \* the SSE events sent to the client, in order
    save_calls,       \* number of save_image_from_base64 calls
    saved_metadata_list,    \* what save_image_from_base64 returned
    \* ---- gallery: metadata table, images directory, image routes ----
    rows,             \* the rows of the image_metadata table
    files,            \* the regular files of the file system: path -> bytes
    db_ok,            \* the database can be opened and queried
    reply,            \* what the last call or request came to
    \* ---- save_image_from_base64 ----
    save_pc,          \* where the call is: idle, loop, returned
    save_args,        \* its arguments
    idx,              \* the loop's idx
    metadata_list,    \* its metadata_list
    save_result,      \* what it returned
    fault,            \* the step of the call that raised, "none" when none did
    uuids,            \* number of uuid4 values drawn
    saves,            \* number of calls made
    call_files,       \* the paths the call in progress has created so far
    \* ---- POST /api/generate (app/routes/generation_routes.py) ----
    posted,           \* the JSON body of the last request
    gen_pc,           \* where handle_generate_image is: idle, generate, save, answered
    saved_list,       \* the handler's saved_metadata_list
    gen_response,     \* the HTTP response
    save_patched,     \* save_image_from_base64 is replaced by a stub
    checked,          \* what a stand-alone validator, called last, came to
    \* ---- POST /api/edit (app/main.py, app/routes/editing_routes.py) ----
    edit_app,         \* the application the request is sent to
    edit_path,        \* the path of the last request
    edit_form,        \* its multipart form
    edit_pc,          \* where the request is: idle, edit, save, streaming, answered
    edit_saved,       \* handle_edit_image's saved_metadata_list
    edit_response     \* the HTTP response

limiterVars ==
    << now, requests, lock, max_requests, window_seconds, pc, cur, cleanup,
       history, calls, shortCleanup >>

retryVars ==
    << fn, attempt_state, attempt_number, upstream_calls, outcomes, result,
       waits >>

streamVars ==
    << mode, stream_fn, svc, partial_count, created, events_read, failed,
       image_event, pending, chunks, route, outbox, collected_image_data, sse,
       save_calls, saved_metadata_list >>

storeVars == << rows, files, db_ok, reply >>

saveVars ==
    << save_pc, save_args, idx, metadata_list, save_result, fault, uuids, saves,
       call_files >>

generateVars ==
    << posted, gen_pc, saved_list, gen_response, save_patched, checked >>

editVars ==
    << edit_app, edit_path, edit_form, edit_pc, edit_saved, edit_response >>

vars ==
    << limiterVars, retryVars, streamVars, storeVars, saveVars, generateVars,
       editVars >>

\* what the actions of one subsystem leave alone
notLimiter ==
    << retryVars, streamVars, storeVars, saveVars, generateVars, editVars >>
notRetry ==
    << limiterVars, streamVars, storeVars, saveVars, generateVars, editVars >>
notStream ==
    << limiterVars, retryVars, storeVars, saveVars, generateVars, editVars >>
notStore ==
    << limiterVars, retryVars, streamVars, saveVars, generateVars, editVars >>
notSave == << limiterVars, retryVars, streamVars, generateVars, editVars >>
notGenerate == << limiterVars, streamVars, editVars >>
notEdit == << limiterVars, streamVars >>

----------------------------------------------------------------------------
(* Bounds of the model *)

MaxTime == 3          \* the clock runs 0..MaxTime
MaxCalls == 3         \* requests started in one behaviour
MaxOlderThan == 2     \* older_than_seconds is drawn from 0..MaxOlderThan
MaxEvents == 3        \* upstream events read, or stub chunks yielded, by one stream

Tasks == {"t1", "t2"}                 \* concurrently served requests
Limits == {0, 1, 2}              \* the values of max_requests
Windows == {1, 2}                \* the values of window_seconds
Hosts == {"10.0.0.1"}
NoClient == "no-client"          \* request.client is None
Identifiers == Hosts \cup {"unknown"}
NoHolder == "nobody"
CleanupTask == "cleanup"

----------------------------------------------------------------------------
(* Rate limiter: pure parts *)

\* rate_limit.wrapper: the identifier of a request
ClientIp(client) == IF client # NoClient THEN client ELSE "unknown"

\* defaultdict(list): a missing key reads as the empty list
Stored(reqs, identifier) ==
    IF identifier \in DOMAIN reqs THEN reqs[identifier] ELSE << >>

\* window_start = now - timedelta(seconds=window_seconds)
WindowStart(t, window) == t - window

\* a window whose first instant still counts
UnexpiredInclusive(timestamps, start) ==
    SelectSeq(timestamps, LAMBDA ts : ts >= start)

\* a window one unit too short
UnexpiredShort(timestamps, start) ==
    SelectSeq(timestamps, LAMBDA ts : ts > start + 1)

\* [req_time for req_time in ... if req_time > window_start]
Unexpired(timestamps, start) == SelectSeq(timestamps, LAMBDA ts : ts > start)

\* len(self.requests[identifier]) >= max_requests
LimitExceeded(timestamps, limit) == Len(timestamps) >= limit

\* a check that records the call whether it is allowed or not
RecordedAlways(timestamps, allowed, at) == Append(timestamps, at)

\* "return False" leaves the list as pruned, else self.requests[identifier].append(now)
Recorded(timestamps, allowed, at) ==
    IF allowed THEN Append(timestamps, at) ELSE timestamps

\* a lock that never blocks
LockIgnored == TRUE

\* async with self.lock: the lock can be taken only when nobody holds it
LockFree == lock = NoHolder

\* a wrapper that awaits the endpoint whatever check_rate_limit returned
WrapperAlwaysInvokes(allowed) == [invoked |-> 1, status |-> "endpoint"]

\* wrapper: "if not allowed: raise HTTPException(429)", else "await func(...)"
WrapperOutcome(allowed) ==
    IF allowed THEN [invoked |-> 1, status |-> "endpoint"]
               ELSE [invoked |-> 0, status |-> "429"]

\* [ts for ts in timestamps if ts > cutoff] for every identifier
CleanupFilter(reqs, cutoff) ==
    [k \in DOMAIN reqs |-> Unexpired(reqs[k], cutoff)]

\* a cleanup that marks no identifier for removal
MarksNone(reqs) == {}

\* identifiers_to_remove: the identifiers whose list became empty
IdentifiersToRemove(reqs) == {k \in DOMAIN reqs : reqs[k] = << >>}

----------------------------------------------------------------------------
(* Rate limiter: state machine *)

NoRequest == [client |-> NoClient, at |-> 0]

InitLimiterVars ==
    /\ now = 0
    /\ requests = << >>
    /\ lock = NoHolder
    /\ pc = [t \in Tasks |-> "idle"]
    /\ cur = [t \in Tasks |-> NoRequest]
    /\ cleanup = "sleep"
    /\ history = << >>
    /\ calls = 0
    /\ shortCleanup = FALSE

\* datetime.now() moves on
Tick ==
    /\ now < MaxTime
    /\ now' = now + 1
    /\ UNCHANGED << requests, lock, max_requests, window_seconds, pc, cur,
                    cleanup, history, calls, shortCleanup >>
    /\ UNCHANGED notLimiter

\* a request arrives at an endpoint wrapped by rate_limit(max_requests, window_seconds)
Request(t, client) ==
    /\ pc[t] = "idle"
    /\ calls < MaxCalls
    /\ calls' = calls + 1
    /\ cur' = [cur EXCEPT ![t] = [client |-> client, at |-> 0]]
    /\ pc' = [pc EXCEPT ![t] = "acquire"]
    /\ UNCHANGED << now, requests, lock, max_requests, window_seconds, cleanup,
                    history, shortCleanup >>
    /\ UNCHANGED notLimiter

\* check_rate_limit: async with self.lock
CheckAcquire(t) ==
    /\ pc[t] = "acquire"
    /\ LockFree
    /\ lock' = t
    /\ pc' = [pc EXCEPT ![t] = "prune"]
    /\ UNCHANGED << now, requests, max_requests, window_seconds, cur, cleanup,
                    history, calls, shortCleanup >>
    /\ UNCHANGED notLimiter

\* check_rate_limit: now = datetime.now(); drop the expired timestamps
CheckPrune(t) ==
    /\ pc[t] = "prune"
    /\ LET identifier == ClientIp(cur[t].client)
           kept == Unexpired(Stored(requests, identifier),
                             WindowStart(now, window_seconds))
       IN  requests' = [k \in DOMAIN requests \cup {identifier} |->
                           IF k = identifier THEN kept ELSE requests[k]]
    /\ cur' = [cur EXCEPT ![t].at = now]
    /\ pc' = [pc EXCEPT ![t] = "decide"]
    /\ UNCHANGED << now, lock, max_requests, window_seconds, cleanup, history,
                    calls, shortCleanup >>
    /\ UNCHANGED notLimiter

\* check_rate_limit: return False over the limit, else append now and return True;
\* leaving the "async with" block releases the lock. The wrapper goes on without
\* suspending: HTTP 429 when not allowed, else the endpoint is awaited
CheckDecide(t) ==
    /\ pc[t] = "decide"
    /\ LET identifier == ClientIp(cur[t].client)
           allowed == ~LimitExceeded(Stored(requests, identifier), max_requests)
       IN  /\ requests' =
                 [requests EXCEPT ![identifier] = Recorded(@, allowed, cur[t].at)]
           /\ history' = Append(history,
                 [identifier |-> identifier, at |-> cur[t].at, allowed |-> allowed]
                 @@ WrapperOutcome(allowed))
    /\ lock' = IF lock = t THEN NoHolder ELSE lock
    /\ pc' = [pc EXCEPT ![t] = "idle"]
    /\ cur' = [cur EXCEPT ![t] = NoRequest]
    /\ UNCHANGED << now, max_requests, window_seconds, cleanup, calls,
                    shortCleanup >>
    /\ UNCHANGED notLimiter

\* cleanup_old_entries(older_than_seconds): async with self.lock
CleanupAcquire ==
    /\ cleanup = "sleep"
    /\ LockFree
    /\ lock' = CleanupTask
    /\ cleanup' = "locked"
    /\ UNCHANGED << now, requests, max_requests, window_seconds, pc, cur,
                    history, calls, shortCleanup >>
    /\ UNCHANGED notLimiter

\* cleanup_old_entries: filter every list, mark the empty ones, delete them; the
\* block holds no await, and leaving it releases the lock
CleanupBody(older_than_seconds) ==
    /\ cleanup = "locked"
    /\ LET filtered == CleanupFilter(requests, now - older_than_seconds)
           remove == IdentifiersToRemove(filtered)
       IN  requests' = [k \in DOMAIN filtered \ remove |-> filtered[k]]
    /\ shortCleanup' = (shortCleanup \/ older_than_seconds < window_seconds)
    /\ lock' = IF lock = CleanupTask THEN NoHolder ELSE lock
    /\ cleanup' = "sleep"
    /\ UNCHANGED << now, max_requests, window_seconds, pc, cur, history,
                    calls >>
    /\ UNCHANGED notLimiter

NextLimiter ==
    \/ Tick
    \/ \E t \in Tasks, client \in Hosts \cup {NoClient} : Request(t, client)
    \/ \E t \in Tasks : CheckAcquire(t)
    \/ \E t \in Tasks : CheckPrune(t)
    \/ \E t \in Tasks : CheckDecide(t)
    \/ CleanupAcquire
    \/ \E older \in 0..MaxOlderThan : CleanupBody(older)

----------------------------------------------------------------------------
(* Retried upstream calls: generate_image_from_prompt, edit_image_from_prompt *)

NoneValue == "<None>"
Generate == "generate"
Edit == "edit"

\* the exceptions client.responses.create can raise, by class
RateLimitError == "RateLimitError"            \* an APIStatusError, so an APIError
APIStatusError == "APIStatusError"            \* an APIError that is no RateLimitError
APIConnectionError == "APIConnectionError"    \* an APIError without a response
TimeoutException == "httpx.TimeoutException"
NetworkError == "httpx.NetworkError"
OtherException == "Exception"
AttributeError == "AttributeError"

UpstreamExceptions ==
    { RateLimitError, APIStatusError, APIConnectionError, TimeoutException,
      NetworkError, OtherException }

IsAPIError(exc) == exc \in {RateLimitError, APIStatusError, APIConnectionError}

\* status_code is an attribute of APIStatusError and its subclasses only
HasStatusCode(exc) == exc \in {RateLimitError, APIStatusError}

\* the result attribute of an output item: an image, the empty string or None
ItemResults == {"imgA", "imgB", "", NoneValue}
MaxItems == 2

RECURSIVE SeqsUpTo(_, _)
SeqsUpTo(S, n) ==
    IF n = 0 THEN {<< >>}
    ELSE LET shorter == SeqsUpTo(S, n - 1)
         IN  shorter \cup {Append(q, x) : q \in {r \in shorter : Len(r) = n - 1}, x \in S}

\* what one upstream call does: it raises, or it returns a response
UpstreamOutcomes ==
    {[raised |-> TRUE, exc |-> e, hasOutput |-> FALSE, output |-> << >>] :
        e \in UpstreamExceptions}
    \cup {[raised |-> FALSE, exc |-> NoneValue, hasOutput |-> FALSE, output |-> << >>]}
    \cup {[raised |-> FALSE, exc |-> NoneValue, hasOutput |-> TRUE, output |-> o] :
            o \in SeqsUpTo(ItemResults, MaxItems)}

\* getattr(item, "result", None) is truthy
Truthy(r) == r \notin {"", NoneValue}

\* [item.result for item in response.output if getattr(item, "result", None)]
ImageDataList(response) ==
    IF response.hasOutput THEN SelectSeq(response.output, Truthy) ELSE << >>

\* a returned value: generate_image_from_prompt returns the pair
\* (image_data_list, None) and edit_image_from_prompt image_data_list itself;
\* isNone says that None stands where the list would
ListValue(f, image_data_list) ==
    [pair |-> (f = Generate), isNone |-> FALSE, image_data_list |-> image_data_list]

\* what the function hands back on failure: (None, None), respectively None
FailureValue(f) ==
    [pair |-> (f = Generate), isNone |-> TRUE, image_data_list |-> << >>]

NoValue == [pair |-> FALSE, isNone |-> TRUE, image_data_list |-> << >>]

Returns(value) == [kind |-> "return", value |-> value, exc |-> NoneValue]
Raises(exc) == [kind |-> "raise", value |-> NoValue, exc |-> exc]
NoResult == [kind |-> "none", value |-> NoValue, exc |-> NoneValue]

\* the except clause that logs e.status_code returns None for every APIError
EditAPIErrorTotal(exc) == Returns(FailureValue(Edit))

\* edit_image_from_prompt, "except APIError": the log line reads e.status_code,
\* e.code, e.message and e.body before "return None"
EditAPIError(exc) ==
    IF HasStatusCode(exc) THEN Returns(FailureValue(Edit)) ELSE Raises(AttributeError)

\* one run of the body of generate_image_from_prompt
GenerateBody(outcome) ==
    IF ~outcome.raised THEN Returns(ListValue(Generate, ImageDataList(outcome)))
    ELSE IF outcome.exc = RateLimitError THEN Raises(outcome.exc)
    ELSE IF IsAPIError(outcome.exc) THEN Returns(FailureValue(Generate))
    ELSE IF outcome.exc = TimeoutException THEN Raises(outcome.exc)
    ELSE IF outcome.exc = NetworkError THEN Raises(outcome.exc)
    ELSE Returns(FailureValue(Generate))

\* one run of the body of edit_image_from_prompt
EditBody(outcome) ==
    IF ~outcome.raised THEN Returns(ListValue(Edit, ImageDataList(outcome)))
    ELSE IF outcome.exc = RateLimitError THEN Raises(outcome.exc)
    ELSE IF IsAPIError(outcome.exc) THEN EditAPIError(outcome.exc)
    ELSE IF outcome.exc = TimeoutException THEN Raises(outcome.exc)
    ELSE IF outcome.exc = NetworkError THEN Raises(outcome.exc)
    ELSE Returns(FailureValue(Edit))

Body(f, outcome) == IF f = Generate THEN GenerateBody(outcome) ELSE EditBody(outcome)

\* retry_if_exception_type((RateLimitError, httpx.TimeoutException, httpx.NetworkError))
RetryIf(exc) == exc \in {RateLimitError, TimeoutException, NetworkError}

MaxAttempts == 3

\* a stop condition that lets one more attempt through
StopOneLate(n) == n > MaxAttempts

\* stop_after_attempt(3)
StopAfterAttempt(n) == n >= MaxAttempts

WaitMultiplier == 1     \* wait_exponential(multiplier=1, ...)
WaitMin == 2            \* wait_exponential(..., min=2, ...)
WaitMax == 10           \* wait_exponential(..., max=10)

\* tenacity's wait_exponential after attempt n:
\* max(max(0, min), min(multiplier * 2 ** (n - 1), max))
WaitExponential(n) ==
    LET exp == 2 ^ (n - 1)
        wait == WaitMultiplier * exp
        capped == IF wait <= WaitMax THEN wait ELSE WaitMax
        floor == IF 0 >= WaitMin THEN 0 ELSE WaitMin
    IN  IF capped >= floor THEN capped ELSE floor

InitRetryVars ==
    /\ fn = NoneValue
    /\ attempt_state = "idle"
    /\ attempt_number = 0
    /\ upstream_calls = 0
    /\ outcomes = << >>
    /\ result = NoResult
    /\ waits = << >>

\* a caller awaits generate_image_from_prompt or edit_image_from_prompt
Invoke(f) ==
    /\ attempt_state = "idle"
    /\ fn' = f
    /\ attempt_number' = 1
    /\ attempt_state' = "attempt"
    /\ UNCHANGED << upstream_calls, outcomes, result, waits >>
    /\ UNCHANGED notRetry

\* one attempt: the body calls the upstream API once; tenacity hands a returned
\* value or an exception it does not retry to the caller, re-raises the last
\* exception when the attempts are used up, and sleeps otherwise
Attempt(outcome) ==
    /\ attempt_state = "attempt"
    /\ upstream_calls' = upstream_calls + 1
    /\ outcomes' = Append(outcomes, outcome)
    /\ LET done == Body(fn, outcome)
       IN  IF done.kind = "return"
           THEN attempt_state' = "returned" /\ result' = done /\ waits' = waits
           ELSE IF ~RetryIf(done.exc) \/ StopAfterAttempt(attempt_number)
           THEN attempt_state' = "raised" /\ result' = done /\ waits' = waits
           ELSE /\ attempt_state' = "sleep"
                /\ result' = result
                /\ waits' = Append(waits, WaitExponential(attempt_number))
    /\ UNCHANGED << fn, attempt_number >>
    /\ UNCHANGED notRetry

\* the backoff sleep is over: the next attempt starts
Sleep ==
    /\ attempt_state = "sleep"
    /\ attempt_number' = attempt_number + 1
    /\ attempt_state' = "attempt"
    /\ UNCHANGED << fn, upstream_calls, outcomes, result, waits >>
    /\ UNCHANGED notRetry

NextRetry ==
    \/ \E f \in {Generate, Edit} : Invoke(f)
    \/ \E outcome \in UpstreamOutcomes : Attempt(outcome)
    \/ Sleep

----------------------------------------------------------------------------
(* Streaming: the service generators generate_image_from_prompt_stream and *)
(* edit_image_from_prompt_stream                                            *)

NoChunk ==
    [type |-> "none", data |-> "", index |-> 0, hasError |-> FALSE, error |-> "",
     beforeCreate |-> FALSE, read |-> 0]

\* a chunk as the generator yields it; beforeCreate and read record when
Chunk(type, data, index, hasError, error) ==
    [type |-> type, data |-> data, index |-> index, hasError |-> hasError,
     error |-> error, beforeCreate |-> ~created, read |-> events_read]

\* {"type": "progress", "data": {"status": status}}
ProgressChunk(status) == Chunk("progress", status, 0, FALSE, "")

\* {"type": "partial_image", "data": partial_data, "index": partial_count}
PartialChunk(data, index) == Chunk("partial_image", data, index, FALSE, "")

\* {"type": "image", "data": result}
ImageChunk(image) == Chunk("image", image, 0, FALSE, "")

\* generate: {"type": "error", "data": {"error": str(e)}}, no "error" key;
\* edit: {"type": "error", "error": str(e)}
ErrorChunk(f, message) ==
    IF f = Generate THEN Chunk("error", message, 0, FALSE, "")
                    ELSE Chunk("error", "", 0, TRUE, message)

\* the output items of a completed response
OutputItems ==
    { [type |-> "image_generation_call", hasResult |-> TRUE, result |-> "imgA"],
      [type |-> "image_generation_call", hasResult |-> TRUE, result |-> "imgB"],
      [type |-> "image_generation_call", hasResult |-> TRUE, result |-> ""],
      [type |-> "image_generation_call", hasResult |-> TRUE, result |-> NoneValue],
      [type |-> "image_generation_call", hasResult |-> FALSE, result |-> NoneValue],
      [type |-> "message", hasResult |-> TRUE, result |-> "imgB"] }

Event(type, hasData, data, hasOutput, output) ==
    [type |-> type, hasData |-> hasData, data |-> data, hasOutput |-> hasOutput,
     output |-> output]

NoEvent == Event("none", FALSE, "", FALSE, << >>)

\* the events the upstream stream can deliver
UpstreamEvents ==
    { Event("response.in_progress", FALSE, "", FALSE, << >>),
      Event("response.image_generation_call.generating", FALSE, "", FALSE, << >>),
      Event("response.image_generation_call.partial_image", TRUE, "part", FALSE, << >>),
      Event("response.image_generation_call.partial_image", FALSE, "", FALSE, << >>),
      Event("response.created", FALSE, "", FALSE, << >>),
      Event("response.completed", FALSE, "", FALSE, << >>) }
    \cup { Event("response.completed", FALSE, "", TRUE, o) :
              o \in SeqsUpTo(OutputItems, MaxItems) }

\* hasattr(output_item, 'type') and output_item.type == 'image_generation_call'
\* and hasattr(output_item, 'result'), and then isinstance(result, str) and result
HoldsImage(item) ==
    /\ item.type = "image_generation_call"
    /\ item.hasResult
    /\ item.result \notin {"", NoneValue}

\* the first output item that holds an image, 0 when none does
FirstImage(output) ==
    LET hits == {i \in 1..Len(output) : HoldsImage(output[i])}
    IN  IF hits = {} THEN 0 ELSE CHOOSE i \in hits : \A j \in hits : i <= j

\* a generator that goes on reading events after it yielded the image
KeepsReading(chunk) == "loop"

\* where the generator is suspended after yielding a chunk from its loop: the
\* image chunk is followed by "return"
SuspendedAt(chunk) == IF chunk.type = "image" THEN "at_image" ELSE "loop"

\* an except clause that ends the generator without re-raising
Swallows(f) == "done"

\* resumed after the error chunk: generate re-raises, edit falls off the end
AfterError(f) == IF f = Generate THEN "raised" ELSE "done"

ErrorMessage == "upstream failed"

InitServiceVars ==
    /\ svc = "new"
    /\ partial_count = 0
    /\ created = FALSE
    /\ events_read = 0
    /\ failed = FALSE
    /\ image_event = NoEvent
    /\ pending = NoChunk
    /\ chunks = << >>

\* the consumer has asked the chunk stream for its next chunk
Pulling == route = "pull" /\ pending = NoChunk

Yield(chunk) ==
    /\ pending' = chunk
    /\ chunks' = Append(chunks, chunk)

\* first resume: yield {"type": "progress", "data": {"status": "started"}}
SvcStart ==
    /\ mode \in {"route", "direct"}
    /\ Pulling
    /\ svc = "new"
    /\ Yield(ProgressChunk("started"))
    /\ svc' = "at_started"
    /\ UNCHANGED << mode, stream_fn, partial_count, created, events_read, failed,
                    image_event, route, outbox, collected_image_data, sse,
                    save_calls, saved_metadata_list >>
    /\ UNCHANGED notStream

\* stream = await client.responses.create(..., stream=True) returns the stream
SvcCreate ==
    /\ mode \in {"route", "direct"}
    /\ Pulling
    /\ svc = "at_started"
    /\ created' = TRUE
    /\ svc' = "loop"
    /\ UNCHANGED << mode, stream_fn, partial_count, events_read, failed,
                    image_event, pending, chunks, route, outbox,
                    collected_image_data, sse, save_calls, saved_metadata_list >>
    /\ UNCHANGED notStream

\* client.responses.create raises: the except clause yields the error chunk
SvcCreateRaises ==
    /\ mode \in {"route", "direct"}
    /\ Pulling
    /\ svc = "at_started"
    /\ created' = TRUE
    /\ failed' = TRUE
    /\ Yield(ErrorChunk(stream_fn, ErrorMessage))
    /\ svc' = "at_error"
    /\ UNCHANGED << mode, stream_fn, partial_count, events_read, image_event,
                    route, outbox, collected_image_data, sse, save_calls,
                    saved_metadata_list >>
    /\ UNCHANGED notStream

\* "async for event in stream": one event is read and handled
SvcEvent(event) ==
    /\ mode \in {"route", "direct"}
    /\ Pulling
    /\ svc = "loop"
    /\ events_read < MaxEvents
    /\ events_read' = events_read + 1
    /\ partial_count' =
          IF event.type = "response.image_generation_call.partial_image"
          THEN partial_count + 1 ELSE partial_count
    /\ LET first == FirstImage(event.output)
           yielded ==
              IF event.type = "response.in_progress"
              THEN ProgressChunk("processing")
              ELSE IF event.type = "response.image_generation_call.generating"
              THEN ProgressChunk("generating")
              ELSE IF event.type = "response.image_generation_call.partial_image"
                      /\ event.hasData
              THEN PartialChunk(event.data, partial_count + 1)
              ELSE IF event.type = "response.completed" /\ event.hasOutput
                      /\ first # 0
              THEN ImageChunk(event.output[first].result)
              ELSE NoChunk
           \* the chunk is yielded after the event was read
           stamped == [yielded EXCEPT !.read = events_read + 1]
           \* "return" leaves the loop over the output at the item that was yielded
           looped == [event EXCEPT !.output = SubSeq(event.output, 1, first)]
       IN  /\ image_event' = IF yielded.type = "image" THEN looped ELSE image_event
           /\ IF yielded = NoChunk
              THEN /\ svc' = "loop"
                   /\ UNCHANGED << pending, chunks >>
              ELSE /\ svc' = SuspendedAt(stamped)
                   /\ Yield(stamped)
    /\ UNCHANGED << mode, stream_fn, created, failed, route, outbox,
                    collected_image_data, sse, save_calls, saved_metadata_list >>
    /\ UNCHANGED notStream

\* the upstream stream raises while it is iterated: the except clause yields the
\* error chunk
SvcStreamRaises ==
    /\ mode \in {"route", "direct"}
    /\ Pulling
    /\ svc = "loop"
    /\ failed' = TRUE
    /\ Yield(ErrorChunk(stream_fn, ErrorMessage))
    /\ svc' = "at_error"
    /\ UNCHANGED << mode, stream_fn, partial_count, created, events_read,
                    image_event, route, outbox, collected_image_data, sse,
                    save_calls, saved_metadata_list >>
    /\ UNCHANGED notStream

\* the upstream stream is exhausted, or the generator is resumed after the image
\* chunk ("return"): the generator ends
SvcEnd ==
    /\ mode \in {"route", "direct"}
    /\ Pulling
    /\ svc \in {"loop", "at_image"}
    /\ svc' = "done"
    /\ UNCHANGED << mode, stream_fn, partial_count, created, events_read, failed,
                    image_event, pending, chunks, route, outbox,
                    collected_image_data, sse, save_calls, saved_metadata_list >>
    /\ UNCHANGED notStream

\* the generator is resumed after the error chunk
SvcAfterError ==
    /\ mode \in {"route", "direct"}
    /\ Pulling
    /\ svc = "at_error"
    /\ svc' = AfterError(stream_fn)
    /\ UNCHANGED << mode, stream_fn, partial_count, created, events_read, failed,
                    image_event, pending, chunks, route, outbox,
                    collected_image_data, sse, save_calls, saved_metadata_list >>
    /\ UNCHANGED notStream

\* the chunks a patched-in stream yields (tests/test_streaming_routes.py)
StubChunks ==
    { Chunk("progress", "Starting", 0, FALSE, ""),
      Chunk("partial_image", "part", 0, FALSE, ""),
      Chunk("image", "imgA", 0, FALSE, ""),
      Chunk("image", "imgB", 0, FALSE, ""),
      Chunk("error", "", 0, TRUE, "API Error occurred") }

\* a patched-in stream yields its next chunk
StubYield(chunk) ==
    /\ mode = "stub"
    /\ Pulling
    /\ svc \in {"new", "loop"}
    /\ Len(chunks) < MaxEvents
    /\ Yield(chunk)
    /\ svc' = "loop"
    /\ UNCHANGED << mode, stream_fn, partial_count, created, events_read, failed,
                    image_event, route, outbox, collected_image_data, sse,
                    save_calls, saved_metadata_list >>
    /\ UNCHANGED notStream

\* a patched-in stream ends
StubEnd ==
    /\ mode = "stub"
    /\ Pulling
    /\ svc \in {"new", "loop"}
    /\ svc' = "done"
    /\ UNCHANGED << mode, stream_fn, partial_count, created, events_read, failed,
                    image_event, pending, chunks, route, outbox,
                    collected_image_data, sse, save_calls, saved_metadata_list >>
    /\ UNCHANGED notStream

\* a patched-in stream raises
StubRaises ==
    /\ mode = "stub"
    /\ Pulling
    /\ svc \in {"new", "loop"}
    /\ svc' = "raised"
    /\ UNCHANGED << mode, stream_fn, partial_count, created, events_read, failed,
                    image_event, pending, chunks, route, outbox,
                    collected_image_data, sse, save_calls, saved_metadata_list >>
    /\ UNCHANGED notStream

\* a caller iterating the generator itself takes the chunk and asks for the next
DirectTake ==
    /\ mode = "direct"
    /\ pending # NoChunk
    /\ pending' = NoChunk
    /\ UNCHANGED << mode, stream_fn, svc, partial_count, created, events_read,
                    failed, image_event, chunks, route, outbox,
                    collected_image_data, sse, save_calls, saved_metadata_list >>
    /\ UNCHANGED notStream

----------------------------------------------------------------------------
(* Streaming: generate() of handle_generate_image_stream and of            *)
(* handle_edit_image_stream, and the StreamingResponse that sends its events *)

NoMetadata == [id |-> 0, image |-> ""]

\* an SSE event; src is the chunk it derives from (0: none), and seen and saved
\* are filled in when it is sent
SSE(type, data, error, metadata, src) ==
    [type |-> type, data |-> data, error |-> error, metadata |-> metadata,
     src |-> src, seen |-> 0, saved |-> 0]

NoSSE == SSE("none", "", "", NoMetadata, 0)

\* str(KeyError('error'))
KeyErrorText == "'error'"

\* a loop that goes on after an error chunk
IgnoresErrorChunk(chunk) == FALSE

\* "elif chunk['type'] == 'error': ... yield ...; return", also left through the
\* except clause when the chunk has no 'error' key
EndsRelay(chunk) == chunk.type = "error"

\* the event generate() yields for a chunk, NoSSE for a chunk it has no branch for
EventFor(chunk, src) ==
    IF chunk.type = "progress"
    THEN SSE("progress", chunk.data, "", NoMetadata, src)
    ELSE IF chunk.type = "image"
    THEN SSE("partial_image", chunk.data, "", NoMetadata, src)
    ELSE IF chunk.type = "error"
    THEN IF chunk.hasError
         THEN SSE("error", "", chunk.error, NoMetadata, src)
         ELSE SSE("error", "", KeyErrorText, NoMetadata, src)
    ELSE NoSSE

\* collected_image_data.append(chunk["data"]) for an image chunk
Collect(collected, chunk) ==
    IF chunk.type = "image" THEN Append(collected, chunk.data) ELSE collected

\* the complete event built from the last elements
CompleteFromLast(saved, collected) ==
    SSE("complete", collected[Len(collected)], "", saved[Len(saved)], 0)

\* {"type": "complete", "metadata": saved_metadata_list[0].model_dump(),
\*  "image_data": collected_image_data[0]}
CompleteEvent(saved, collected) ==
    SSE("complete", collected[1], "", saved[1], 0)

\* "Failed to save generated image" / "Failed to save edited image"
SaveFailedEvent(f) ==
    SSE("error", "",
        IF f = Generate THEN "Failed to save generated image"
                        ELSE "Failed to save edited image",
        NoMetadata, 0)

\* what save_image_from_base64 returns: None, or one metadata per image in order
NoneSaved == [isNone |-> TRUE, list |-> << >>]
SavedAll(collected) ==
    [isNone |-> FALSE,
     list |-> [i \in 1..Len(collected) |-> [id |-> i, image |-> collected[i]]]]

\* events sent first instead of last
SentFirst(sent, event) == << event >> \o sent

\* the response body so far, with one more event
Sent(sent, event) == Append(sent, event)

InitRouteVars ==
    /\ route = "pull"
    /\ outbox = NoSSE
    /\ collected_image_data = << >>
    /\ sse = << >>
    /\ save_calls = 0
    /\ saved_metadata_list = NoneSaved

\* generate() gets a chunk from the chunk stream and handles it
RouteChunk ==
    /\ mode \in {"route", "stub"}
    /\ route = "pull"
    /\ pending # NoChunk
    /\ pending' = NoChunk
    /\ collected_image_data' = Collect(collected_image_data, pending)
    /\ LET event == EventFor(pending, Len(chunks))
       IN  IF event = NoSSE
           THEN UNCHANGED << route, outbox >>
           ELSE /\ outbox' = event
                /\ route' = IF EndsRelay(pending) THEN "yield_last" ELSE "yield"
    /\ UNCHANGED << mode, stream_fn, svc, partial_count, created, events_read,
                    failed, image_event, chunks, sse, save_calls,
                    saved_metadata_list >>
    /\ UNCHANGED notStream

\* StreamingResponse sends the yielded event and resumes generate()
Send ==
    /\ route \in {"yield", "yield_last"}
    /\ sse' = Sent(sse, [outbox EXCEPT !.seen = Len(chunks), !.saved = save_calls])
    /\ outbox' = NoSSE
    /\ route' = IF route = "yield" THEN "pull" ELSE "done"
    /\ UNCHANGED << mode, stream_fn, svc, partial_count, created, events_read,
                    failed, image_event, pending, chunks, collected_image_data,
                    save_calls, saved_metadata_list >>
    /\ UNCHANGED notStream

\* the chunk stream ended: with images collected save_image_from_base64 is
\* awaited, without any generate() ends
RouteStreamEnd ==
    /\ mode \in {"route", "stub"}
    /\ Pulling
    /\ svc = "done"
    /\ IF collected_image_data # << >>
       THEN /\ save_calls' = save_calls + 1
            /\ route' = "saving"
       ELSE /\ route' = "done"
            /\ UNCHANGED save_calls
    /\ UNCHANGED << mode, stream_fn, svc, partial_count, created, events_read,
                    failed, image_event, pending, chunks, outbox,
                    collected_image_data, sse, saved_metadata_list >>
    /\ UNCHANGED notStream

\* save_image_from_base64 returns: the complete event, or the error event
RouteSaved(saved) ==
    /\ route = "saving"
    /\ saved_metadata_list' = saved
    /\ outbox' = IF ~saved.isNone /\ saved.list # << >>
                 THEN CompleteEvent(saved.list, collected_image_data)
                 ELSE SaveFailedEvent(stream_fn)
    /\ route' = "yield_last"
    /\ UNCHANGED << mode, stream_fn, svc, partial_count, created, events_read,
                    failed, image_event, pending, chunks, collected_image_data,
                    sse, save_calls >>
    /\ UNCHANGED notStream

\* the chunk stream raised: "except Exception as e" yields an error event
RouteStreamRaised ==
    /\ mode \in {"route", "stub"}
    /\ Pulling
    /\ svc = "raised"
    /\ outbox' = SSE("error", "", ErrorMessage, NoMetadata, 0)
    /\ route' = "yield_last"
    /\ UNCHANGED << mode, stream_fn, svc, partial_count, created, events_read,
                    failed, image_event, pending, chunks, collected_image_data,
                    sse, save_calls, saved_metadata_list >>
    /\ UNCHANGED notStream

NextStream ==
    \/ SvcStart
    \/ SvcCreate
    \/ SvcCreateRaises
    \/ \E event \in UpstreamEvents : SvcEvent(event)
    \/ SvcStreamRaises
    \/ SvcEnd
    \/ SvcAfterError
    \/ \E chunk \in StubChunks : StubYield(chunk)
    \/ StubEnd
    \/ StubRaises
    \/ DirectTake
    \/ RouteChunk
    \/ Send
    \/ RouteStreamEnd
    \/ \E saved \in {NoneSaved, SavedAll(collected_image_data)} : RouteSaved(saved)
    \/ RouteStreamRaised

----------------------------------------------------------------------------
(* Gallery: the image_metadata table (app/services/image_service.py), the  *)
(* images directory and the routes of app/routes/image_routes.py            *)

\* ImageMetadata.parameters: dict | str | None; a value is its type and its text
NoParams == [type |-> "none", text |-> ""]
DictParams == [type |-> "dict", text |-> "{'size': '1024x1024'}"]
IntKeyDict == [type |-> "dict", text |-> "{1: 'a'}"]
StrKeyDict == [type |-> "dict", text |-> "{'1': 'a'}"]
PlainStr == [type |-> "str", text |-> "vivid"]
JsonObjectStr == [type |-> "str", text |-> "{\"1\": \"a\"}"]
JsonListStr == [type |-> "str", text |-> "[1]"]
BrokenJsonStr == [type |-> "str", text |-> "{oops"]
ListValueOfJson == [type |-> "list", text |-> "[1]"]

\* json.dumps(params_to_store): keys that are not strings are written as strings
JsonDumps(value) ==
    IF value = DictParams THEN "{\"size\": \"1024x1024\"}"
    ELSE IF value \in {IntKeyDict, StrKeyDict} THEN "{\"1\": \"a\"}"
    ELSE value.text

\* json.loads(params): ok is FALSE for json.JSONDecodeError
JsonLoads(text) ==
    IF text = "{\"size\": \"1024x1024\"}" THEN [ok |-> TRUE, value |-> DictParams]
    ELSE IF text = "{\"1\": \"a\"}" THEN [ok |-> TRUE, value |-> StrKeyDict]
    ELSE IF text = "[1]" THEN [ok |-> TRUE, value |-> ListValueOfJson]
    ELSE [ok |-> FALSE, value |-> NoParams]

\* params.startswith('{') or params.startswith('[')
StartsWithBracket(text) ==
    text \in {"{\"size\": \"1024x1024\"}", "{\"1\": \"a\"}", "[1]", "{oops"}

\* a datetime in UTC: seconds and microseconds
Time(sec, micro) == [sec |-> sec, micro |-> micro]

\* datetime.isoformat(): "....SS+00:00" when microsecond is 0, else
\* "....SS.ffffff+00:00"; the fraction is kept as a sequence of zero or one
IsoFormat(t) ==
    [seconds |-> t.sec, fraction |-> IF t.micro = 0 THEN << >> ELSE << t.micro >>]

\* pydantic parses the ISO text of a row back into the datetime
FromIsoFormat(text) ==
    Time(text.seconds, IF text.fraction = << >> THEN 0 ELSE text.fraction[1])

\* text comparison of the TEXT column: '+' sorts before '.'
IsoTextLess(a, b) ==
    \/ a.seconds < b.seconds
    \/ /\ a.seconds = b.seconds
       /\ \/ a.fraction = << >> /\ b.fraction # << >>
          \/ /\ a.fraction # << >>
             /\ b.fraction # << >>
             /\ a.fraction[1] < b.fraction[1]

\* ImageMetadata(id, prompt, parameters, filename, timestamp)
ImageMetadata(id, prompt, parameters, filename, timestamp) ==
    [id |-> id, prompt |-> prompt, parameters |-> parameters,
     filename |-> filename, timestamp |-> timestamp]

\* the metadata objects callers hand to save_image_metadata
Metadatas ==
    { ImageMetadata("id1", "p1", DictParams, "a.png", Time(1, 0)),
      ImageMetadata("id2", "p2", NoParams, "b.JPG", Time(1, 5)),
      ImageMetadata("id3", "p1", JsonListStr, "ghost.png", Time(1, 0)),
      ImageMetadata("id4", "p2", JsonObjectStr, "../evil.png", Time(0, 7)),
      ImageMetadata("id5", "p1", IntKeyDict, "..\\evil.png", Time(2, 0)),
      ImageMetadata("id1", "p2", PlainStr, "odd.ext", Time(2, 0)),
      ImageMetadata("id6", "p2", BrokenJsonStr, "a.png", Time(2, 0)) }

ImageIds == {m.id : m \in Metadatas} \cup {"abc123"}

\* the row save_image_metadata inserts: a dict goes in as json.dumps text, the
\* timestamp as its ISO text; isNull says the column is NULL
ToRow(metadata) ==
    [id |-> metadata.id, prompt |-> metadata.prompt,
     isNull |-> (metadata.parameters.type = "none"),
     parameters |-> IF metadata.parameters.type = "dict"
                    THEN JsonDumps(metadata.parameters)
                    ELSE metadata.parameters.text,
     filename |-> metadata.filename, timestamp |-> IsoFormat(metadata.timestamp)]

\* the parameters get_all_image_metadata hands to ImageMetadata(**metadata_data)
RowParameters(row) ==
    IF row.isNull THEN NoParams
    ELSE IF StartsWithBracket(row.parameters) /\ JsonLoads(row.parameters).ok
    THEN JsonLoads(row.parameters).value
    ELSE [type |-> "str", text |-> row.parameters]

\* ImageMetadata(**metadata_data) raises ValidationError unless parameters is a
\* dict, a str or None
Validates(row) == RowParameters(row).type \in {"dict", "str", "none"}

FromRow(row) ==
    ImageMetadata(row.id, row.prompt, RowParameters(row), row.filename,
                  FromIsoFormat(row.timestamp))

\* "for row in rows": a row that raises is logged and skipped
Converted(row) == Validates(row)

RECURSIVE MetadataList(_)
MetadataList(rowseq) ==
    IF rowseq = << >> THEN << >>
    ELSE LET rest == MetadataList(Tail(rowseq))
         IN  IF Converted(Head(rowseq)) THEN << FromRow(Head(rowseq)) >> \o rest
             ELSE rest

\* ORDER BY timestamp DESC / ASC: every listing of the table in that order (rows
\* of equal timestamp come in an order SQL leaves open)
InOrder(a, b, sort) ==
    IF sort = "newest" THEN ~IsoTextLess(a.timestamp, b.timestamp)
    ELSE ~IsoTextLess(b.timestamp, a.timestamp)

Orderings(table, sort) ==
    { s \in [1..Cardinality(table) -> table] :
         /\ \A i, j \in DOMAIN s : i # j => s[i] # s[j]
         /\ \A i, j \in DOMAIN s : i < j => InOrder(s[i], s[j], sort) }

\* LIMIT ? OFFSET ?: a negative LIMIT is no limit, a negative OFFSET is 0
LimitOffset(rowseq, limit, offset) ==
    LET first == (IF offset < 0 THEN 0 ELSE offset) + 1
        last == IF limit < 0 THEN Len(rowseq)
                ELSE IF first + limit - 1 > Len(rowseq) THEN Len(rowseq)
                ELSE first + limit - 1
    IN  IF first > last THEN << >> ELSE SubSeq(rowseq, first, last)

\* the images directory and the paths of the model's file system
ImagesDir == << "storage", "images" >>

\* the components of a name under pathlib on POSIX: only '/' separates
Components(name) ==
    IF name = "../evil.png" THEN << "..", "evil.png" >>
    ELSE IF name = "sub/c.png" THEN << "sub", "c.png" >>
    ELSE IF name = "" THEN << >>
    ELSE << name >>

\* '/' in filename or '\\' in filename
HasSeparator(name) == name \in {"../evil.png", "sub/c.png", "..\\evil.png"}

RECURSIVE Resolve(_, _)
\* the file a path names: ".." steps to the parent directory
Resolve(dir, parts) ==
    IF parts = << >> THEN dir
    ELSE IF Head(parts) = ".."
    THEN Resolve(IF dir = << >> THEN dir ELSE SubSeq(dir, 1, Len(dir) - 1),
                 Tail(parts))
    ELSE Resolve(Append(dir, Head(parts)), Tail(parts))

\* IMAGE_STORAGE_PATH / filename
FilePath(name) == Resolve(ImagesDir, Components(name))

\* the regular files that can exist, each with its bytes
KnownFiles ==
    [p \in { << "storage", "images", "a.png" >>,
             << "storage", "images", "b.JPG" >>,
             << "storage", "images", "odd.ext" >>,
             << "storage", "images", "sub", "c.png" >>,
             << "storage", "evil.png" >> } |->
        IF p = << "storage", "images", "a.png" >> THEN "bytes-a"
        ELSE IF p = << "storage", "images", "b.JPG" >> THEN "bytes-b"
        ELSE IF p = << "storage", "images", "odd.ext" >> THEN "bytes-odd"
        ELSE IF p = << "storage", "images", "sub", "c.png" >> THEN "bytes-c"
        ELSE "bytes-evil"]

\* file_path.suffix.lower()
SuffixLower(name) ==
    IF name \in {"a.png", "ghost.png", "../evil.png", "sub/c.png", "..\\evil.png"}
    THEN ".png"
    ELSE IF name = "b.JPG" THEN ".jpg"
    ELSE IF name = "odd.ext" THEN ".ext"
    ELSE ""

MediaType(name) ==
    IF SuffixLower(name) = ".png" THEN "image/png"
    ELSE IF SuffixLower(name) \in {".jpg", ".jpeg"} THEN "image/jpeg"
    ELSE "None"

\* the names requests and rows carry
FileNames ==
    {"a.png", "b.JPG", "odd.ext", "ghost.png", "../evil.png", "sub/c.png",
     "..\\evil.png", "..", ""}

\* what the last call or request of the gallery came to; kind is "return",
\* "raise" or "http", the other fields hold its arguments and its outcome
NoReply ==
    [op |-> "none", kind |-> "none", status |-> 0, detail |-> "",
     list |-> << >>, value |-> "", media_type |-> "", path |-> << >>,
     bytes |-> "", consulted |-> FALSE, handled |-> FALSE, limit |-> 0,
     offset |-> 0, sort |-> "", arg |-> "", stored |-> "", db |-> TRUE]

Returned(op) == [NoReply EXCEPT !.op = op, !.kind = "return"]
Raised(op, exc) == [NoReply EXCEPT !.op = op, !.kind = "raise", !.detail = exc]

\* raise HTTPException(status_code, detail), or FastAPI's own 422 and 404
HTTPException(op, status_code, detail) ==
    [NoReply EXCEPT !.op = op, !.kind = "http", !.status = status_code,
                    !.detail = detail]

\* the functions of image_service are plain "def"s: calling one runs it, and
\* "await" on what it returned raises TypeError
Await(called) ==
    IF called.kind = "raise" THEN called ELSE Raised(called.op, "TypeError")

\* get_all_image_metadata(limit, offset, sort), the SELECT having listed the
\* table as listing; sqlite3.Error is caught and [] returned
get_all_image_metadata(listing, limit, offset, sort) ==
    [Returned("get_all_image_metadata") EXCEPT
        !.list = IF db_ok THEN MetadataList(LimitOffset(listing, limit, offset))
                 ELSE << >>,
        !.limit = limit, !.offset = offset, !.sort = sort, !.db = db_ok]

\* get_image_filename_by_id(image_id): the filename of the row, None when there
\* is no such row or the database fails
get_image_filename_by_id(image_id) ==
    LET hits == {r \in rows : r.id = image_id}
    IN  [Returned("get_image_filename_by_id") EXCEPT
            !.value = IF db_ok /\ hits # {} THEN (CHOOSE r \in hits : TRUE).filename
                      ELSE NoneValue,
            !.arg = image_id, !.db = db_ok]

\* PRIMARY KEY id, filename UNIQUE: the INSERT raises sqlite3.IntegrityError
Conflicts(table, row) ==
    \E r \in table : r.id = row.id \/ r.filename = row.filename

\* save_image_metadata(metadata): returns metadata.id, or rolls back and raises
save_image_metadata(metadata) ==
    IF ~db_ok \/ Conflicts(rows, ToRow(metadata))
    THEN [Raised("save_image_metadata", "sqlite3.Error") EXCEPT
             !.arg = metadata.id, !.db = db_ok]
    ELSE [Returned("save_image_metadata") EXCEPT
             !.value = metadata.id, !.arg = metadata.id, !.db = db_ok]

MaxRows == 2          \* rows the table holds
MaxPageSize == 100    \* Query(10, ge=1, le=100)

\* the limit and offset a query string carries, "x" not being a number
QueryLimits == {0, 1, MaxPageSize, MaxPageSize + 1}
QueryOffsets == {0 - 1, 0}
SortOrder == {"newest", "oldest"}

InitStoreVars ==
    /\ rows = {}
    /\ files = KnownFiles
    /\ db_ok = TRUE
    /\ reply = NoReply

\* the database file becomes unreadable, or readable again
DbBreaks ==
    /\ db_ok
    /\ db_ok' = FALSE
    /\ UNCHANGED << rows, files, reply >>
    /\ UNCHANGED notStore

DbRepaired ==
    /\ ~db_ok
    /\ db_ok' = TRUE
    /\ UNCHANGED << rows, files, reply >>
    /\ UNCHANGED notStore

\* a caller runs save_image_metadata(metadata)
SaveImageMetadata(metadata) ==
    /\ Cardinality(rows) < MaxRows
    /\ reply' = save_image_metadata(metadata)
    /\ rows' = IF reply'.kind = "return" THEN rows \cup {ToRow(metadata)} ELSE rows
    /\ UNCHANGED << files, db_ok >>
    /\ UNCHANGED notStore

\* a caller runs get_all_image_metadata(limit, offset, sort)
GetAllImageMetadata(limit, offset, sort) ==
    /\ \E listing \in Orderings(rows, sort) :
          reply' = get_all_image_metadata(listing, limit, offset, sort)
    /\ UNCHANGED << rows, files, db_ok >>
    /\ UNCHANGED notStore

\* a caller runs get_image_filename_by_id(image_id)
GetImageFilenameById(image_id) ==
    /\ reply' = get_image_filename_by_id(image_id)
    /\ UNCHANGED << rows, files, db_ok >>
    /\ UNCHANGED notStore

\* GET /api/images?limit=..&offset=..&sort=..
get_images(listing, limit, offset, sort) ==
    LET op == "GET /api/images"
        awaited == Await(get_all_image_metadata(listing, limit, offset, sort))
        answer ==
           IF limit < 1 \/ limit > MaxPageSize \/ offset < 0 \/ sort \notin SortOrder
           THEN HTTPException(op, 422, "validation error")
           ELSE IF awaited.kind = "raise"
           THEN [HTTPException(op, 500,
                    "Internal server error retrieving image metadata.")
                    EXCEPT !.handled = TRUE]
           ELSE [HTTPException(op, 200, "") EXCEPT !.list = awaited.list,
                                                   !.handled = TRUE]
    IN  [answer EXCEPT !.limit = limit, !.offset = offset, !.sort = sort,
                       !.db = db_ok]

GetImages(limit, offset, sort) ==
    /\ \E listing \in Orderings(rows, IF sort = "oldest" THEN sort ELSE "newest") :
          reply' = get_images(listing, limit, offset, sort)
    /\ UNCHANGED << rows, files, db_ok >>
    /\ UNCHANGED notStore

\* the part the two file endpoints share: the separator check, the is_file()
\* check, the media type and the FileResponse
FileAnswer(op, filename) ==
    IF HasSeparator(filename)
    THEN HTTPException(op, 400, "Invalid image reference")
    ELSE IF FilePath(filename) \notin DOMAIN files
    THEN [HTTPException(op, 404, "Image file not found") EXCEPT !.consulted = TRUE]
    ELSE [HTTPException(op, 200, "") EXCEPT
             !.consulted = TRUE, !.path = FilePath(filename),
             !.bytes = files[FilePath(filename)],
             !.media_type = MediaType(filename)]

\* "/file/{filename}": the parameter matches [^/]+, any other path has no route
Routable(name) == name # "" /\ name \notin {"../evil.png", "sub/c.png"}

\* GET /api/images/file/{filename}
get_image_by_filename(filename) ==
    LET op == "GET /api/images/file/{filename}"
        answer == IF ~Routable(filename) THEN HTTPException(op, 404, "Not Found")
                  ELSE [FileAnswer(op, filename) EXCEPT !.handled = TRUE]
    IN  [answer EXCEPT !.arg = filename, !.stored = filename]

GetImageByFilename(filename) ==
    /\ reply' = get_image_by_filename(filename)
    /\ UNCHANGED << rows, files, db_ok >>
    /\ UNCHANGED notStore

\* GET /api/images/{image_id}
get_image_file(image_id) ==
    LET op == "GET /api/images/{image_id}"
        called == get_image_filename_by_id(image_id)
        awaited == Await(called)
        answer ==
           IF awaited.kind = "raise"
           THEN HTTPException(op, 500, "Internal server error retrieving image file.")
           ELSE IF awaited.value \in {NoneValue, ""}
           THEN HTTPException(op, 404, "Image not found")
           ELSE FileAnswer(op, awaited.value)
    IN  [answer EXCEPT !.arg = image_id, !.stored = called.value, !.handled = TRUE,
                       !.db = db_ok]

GetImageFile(image_id) ==
    /\ reply' = get_image_file(image_id)
    /\ UNCHANGED << rows, files, db_ok >>
    /\ UNCHANGED notStore

NextStore ==
    \/ DbBreaks
    \/ DbRepaired
    \/ \E metadata \in Metadatas : SaveImageMetadata(metadata)
    \/ \E limit \in 1..MaxRows, offset \in 0..(MaxRows - 1), sort \in SortOrder :
          GetAllImageMetadata(limit, offset, sort)
    \/ \E image_id \in ImageIds : GetImageFilenameById(image_id)
    \/ \E limit \in QueryLimits, offset \in QueryOffsets,
          sort \in SortOrder \cup {"random"} : GetImages(limit, offset, sort)
    \/ \E filename \in FileNames : GetImageByFilename(filename)
    \/ \E image_id \in ImageIds : GetImageFile(image_id)

----------------------------------------------------------------------------
(* Persisting images: save_image_from_base64 (app/services/openai_service.py) *)

MaxSaves == 2         \* calls of save_image_from_base64 in one behaviour

\* the base64 strings a caller passes; "bad" does not decode
ImageData == {"imgA", "imgB", "bad"}

\* base64.b64decode(image_data): ok is FALSE for binascii.Error
Base64Decode(image_data) ==
    IF image_data = "imgA" THEN [ok |-> TRUE, bytes |-> "bytesA"]
    ELSE IF image_data = "imgB" THEN [ok |-> TRUE, bytes |-> "bytesB"]
    ELSE [ok |-> FALSE, bytes |-> ""]

\* what the file system does to "async with aiofiles.open(save_path, 'wb')" and
\* "await f.write(image_bytes)": nothing, open raises, or write raises after the
\* file was created
WriteFaults == {"none", "open", "write"}

\* str(uuid.uuid4()): the k-th value drawn
Uuid(k) == "uuid" \o ToString(k)

\* f"{uuid.uuid4()}_{idx}{file_extension}"
Filename(k, i) == Uuid(k) \o "_" \o ToString(i) \o ".png"

\* revised_prompt or prompt
PromptOf(prompt, revised_prompt) ==
    IF revised_prompt \in {NoneValue, ""} THEN prompt ELSE revised_prompt

\* what save_image_from_base64 hands back: None, or a list
NoneSavedList == [isNone |-> TRUE, list |-> << >>]
SavedList(list) == [isNone |-> FALSE, list |-> list]

\* an error path that hands back what was saved so far
ReturnsPartial(list) == SavedList(list)

\* "return None" of the three except clauses
OnError(list) == NoneSavedList

NoArgs ==
    [image_data_list |-> << >>, prompt |-> "", revised_prompt |-> NoneValue,
     parameters |-> NoParams]

InitSaveVars ==
    /\ save_pc = "idle"
    /\ save_args = NoArgs
    /\ idx = 0
    /\ metadata_list = << >>
    /\ save_result = NoneSavedList
    /\ fault = "none"
    /\ uuids = 0
    /\ saves = 0
    /\ call_files = {}

\* the files of metadata_list are removed ("Clean up partially saved files")
CleanedUp(fs, list) ==
    LET doomed == {Append(ImagesDir, list[i].filename) : i \in 1..Len(list)}
    IN  [p \in DOMAIN fs \ doomed |-> fs[p]]

\* save_image_from_base64(image_data_list, prompt, revised_prompt, parameters)
\* is called: metadata_list = [], os.makedirs(..., exist_ok=True)
SaveCall(image_data_list, prompt, revised_prompt) ==
    /\ save_pc \in {"idle", "returned"}
    /\ saves < MaxSaves
    /\ saves' = saves + 1
    /\ save_pc' = "loop"
    /\ save_args' = [image_data_list |-> image_data_list, prompt |-> prompt,
                     revised_prompt |-> revised_prompt, parameters |-> DictParams]
    /\ idx' = 0
    /\ metadata_list' = << >>
    /\ save_result' = NoneSavedList
    /\ fault' = "none"
    /\ call_files' = {}
    /\ UNCHANGED << uuids, rows, files, db_ok, reply >>
    /\ UNCHANGED notSave

\* one turn of "for idx, image_data in enumerate(image_data_list)", with the
\* except clause it ends in when a step raises
SaveElement(write_fault) ==
    /\ save_pc = "loop"
    /\ idx < Len(save_args.image_data_list)
    /\ LET decoded == Base64Decode(save_args.image_data_list[idx + 1])
           filename == Filename(uuids + 1, idx)
           save_path == Append(ImagesDir, filename)
           metadata ==
              ImageMetadata(Uuid(uuids + 2),
                            PromptOf(save_args.prompt, save_args.revised_prompt),
                            save_args.parameters, filename, Time(saves, idx))
           called == save_image_metadata(metadata)
           awaited == Await(called)
           written == [p \in DOMAIN files \cup {save_path} |->
                          IF p = save_path THEN decoded.bytes ELSE files[p]]
           opened == [p \in DOMAIN files \cup {save_path} |->
                          IF p = save_path THEN "" ELSE files[p]]
       IN  IF ~decoded.ok
           THEN \* except base64.binascii.Error
                /\ fault' = "decode"
                /\ save_pc' = "returned"
                /\ save_result' = OnError(metadata_list)
                /\ UNCHANGED << idx, metadata_list, uuids, rows, files, reply,
                                call_files >>
           ELSE IF write_fault # "none"
           THEN \* except IOError
                /\ fault' = write_fault
                /\ save_pc' = "returned"
                /\ save_result' = OnError(metadata_list)
                /\ uuids' = uuids + 1
                /\ files' = IF write_fault = "write" THEN opened ELSE files
                /\ call_files' = IF write_fault = "write"
                                 THEN call_files \cup {save_path} ELSE call_files
                /\ UNCHANGED << idx, metadata_list, rows, reply >>
           ELSE IF awaited.kind = "raise"
           THEN \* except Exception: the files of metadata_list are removed
                /\ fault' = IF called.kind = "raise" THEN "metadata" ELSE "await"
                /\ save_pc' = "returned"
                /\ save_result' = OnError(metadata_list)
                /\ uuids' = uuids + 2
                /\ rows' = IF called.kind = "return"
                           THEN rows \cup {ToRow(metadata)} ELSE rows
                /\ files' = CleanedUp(written, metadata_list)
                /\ call_files' = call_files \cup {save_path}
                /\ reply' = called
                /\ UNCHANGED << idx, metadata_list >>
           ELSE /\ metadata_list' = Append(metadata_list, metadata)
                /\ idx' = idx + 1
                /\ uuids' = uuids + 2
                /\ rows' = rows \cup {ToRow(metadata)}
                /\ files' = written
                /\ call_files' = call_files \cup {save_path}
                /\ reply' = called
                /\ UNCHANGED << fault, save_pc, save_result >>
    /\ UNCHANGED << save_args, saves, db_ok >>
    /\ UNCHANGED notSave

\* the loop is over: "return metadata_list"
SaveLoopEnd ==
    /\ save_pc = "loop"
    /\ idx = Len(save_args.image_data_list)
    /\ save_pc' = "returned"
    /\ save_result' = SavedList(metadata_list)
    /\ UNCHANGED << save_args, idx, metadata_list, fault, uuids, saves, rows,
                    files, db_ok, reply, call_files >>
    /\ UNCHANGED notSave

\* the database breaks or is repaired between two steps of a call
SaveDbBreaks ==
    /\ save_pc = "loop"
    /\ db_ok
    /\ db_ok' = FALSE
    /\ UNCHANGED << save_pc, save_args, idx, metadata_list, save_result, fault,
                    uuids, saves, rows, files, reply, call_files >>
    /\ UNCHANGED notSave

SaveDbRepaired ==
    /\ save_pc = "returned"
    /\ ~db_ok
    /\ db_ok' = TRUE
    /\ UNCHANGED << save_pc, save_args, idx, metadata_list, save_result, fault,
                    uuids, saves, rows, files, reply, call_files >>
    /\ UNCHANGED notSave

NextSave ==
    \/ \E image_data_list \in SeqsUpTo(ImageData, MaxItems),
          prompt \in {"p"}, revised_prompt \in {NoneValue, "", "r"} :
          SaveCall(image_data_list, prompt, revised_prompt)
    \/ \E write_fault \in WriteFaults : SaveElement(write_fault)
    \/ SaveLoopEnd
    \/ SaveDbBreaks
    \/ SaveDbRepaired

----------------------------------------------------------------------------
(* POST /api/generate: the request model GenerateImageRequest              *)
(* (app/schemas/openai_params.py), the stand-alone validators              *)
(* (app/schemas/validators.py) and handle_generate_image                   *)
(* (app/routes/generation_routes.py)                                       *)

MinPromptLength == 1       \* prompt: min_length=1
MaxPromptLength == 4000    \* prompt: max_length=4000
MinN == 1                  \* n: ge=1
MaxN == 10                 \* n: le=10

\* a field the JSON body does not carry
Absent == "<absent>"

\* a prompt is known by its length; present is FALSE when the body has none
Prompt(len) == [present |-> TRUE, len |-> len]
NoPrompt == [present |-> FALSE, len |-> 0]

\* the JSON value of n: an integer, or something that is none ("abc", 1.5)
IntN(value) == [given |-> TRUE, int |-> TRUE, value |-> value]
NotAnInt == [given |-> TRUE, int |-> FALSE, value |-> 0]
NoN == [given |-> FALSE, int |-> FALSE, value |-> 0]

\* Literal["gpt-image-1"]
ModelLiteral == {"gpt-image-1"}

\* Literal["auto", "low", "medium", "high"]
QualityLiteral == {"auto", "low", "medium", "high"}

\* Literal["1024x1024", "1792x1024", "1024x1792"]
SizeLiteral == {"1024x1024", "1792x1024", "1024x1792"}

\* prompt: str = Field(..., min_length=1, max_length=4000)
PromptField(prompt) ==
    prompt.present /\ prompt.len >= MinPromptLength /\ prompt.len <= MaxPromptLength

\* a field with a default: the default stands in for an absent value
WithDefault(value, default) == IF value = Absent THEN default ELSE value

\* a bound on n that lets MaxN + 1 through
NFieldOneLate(n) == n.int /\ n.value >= MinN /\ n.value <= MaxN + 1

\* n: int = Field(default=1, ge=1, le=10), for a value that is given
NField(n) == n.int /\ n.value >= MinN /\ n.value <= MaxN

\* GenerateImageRequest(**body): ok is FALSE for a ValidationError, and the
\* request is the model with its defaults filled in
GenerateImageRequest(body) ==
    LET n == IF body.n.given THEN body.n ELSE IntN(1)
        request == [prompt |-> body.prompt,
                    model |-> WithDefault(body.model, "gpt-image-1"),
                    quality |-> WithDefault(body.quality, "auto"),
                    size |-> WithDefault(body.size, "1024x1024"),
                    n |-> n]
    IN  [ok |-> /\ PromptField(request.prompt)
                /\ request.model \in ModelLiteral
                /\ request.quality \in QualityLiteral
                /\ request.size \in SizeLiteral
                /\ NField(request.n),
         request |-> request]

\* the JSON bodies posted
Bodies ==
    [prompt : {NoPrompt} \cup
              {Prompt(len) : len \in {MinPromptLength - 1, MinPromptLength,
                                      MaxPromptLength, MaxPromptLength + 1}},
     model : {Absent, "dall-e-3"},
     quality : {Absent, "low", "invalid_quality"},
     size : {"1792x1024", "800x800"},
     n : {NoN, NotAnInt} \cup
         {IntN(value) : value \in {MinN - 1, MinN, MaxN, MaxN + 1}}]

\* validators.py
QUALITY_VALUES == << "auto", "low", "medium", "high" >>
SIZE_VALUES == << "1024x1024", "1792x1024", "1024x1792" >>

\* "x in values" for a list
InList(x, values) == \E i \in 1..Len(values) : values[i] = x

NoCheck == [validator |-> "none", raised |-> FALSE, text |-> "", n |-> 0,
            out_text |-> "", out_n |-> 0]

\* a validator returns its argument, or raises ValueError
ReturnsText(validator, text) ==
    [NoCheck EXCEPT !.validator = validator, !.text = text, !.out_text = text]
ReturnsN(n) == [NoCheck EXCEPT !.validator = "n", !.n = n, !.out_n = n]
ValueErrorText(validator, text) ==
    [NoCheck EXCEPT !.validator = validator, !.text = text, !.raised = TRUE]
ValueErrorN(n) == [NoCheck EXCEPT !.validator = "n", !.n = n, !.raised = TRUE]

validate_model_quality(quality) ==
    IF ~InList(quality, QUALITY_VALUES)
    THEN ValueErrorText("quality", quality)
    ELSE ReturnsText("quality", quality)

validate_model_size(size) ==
    IF ~InList(size, SIZE_VALUES)
    THEN ValueErrorText("size", size)
    ELSE ReturnsText("size", size)

validate_model_n(n) ==
    IF n < 1 \/ n > 10 THEN ValueErrorN(n) ELSE ReturnsN(n)

\* the values the validators are called with
QualityInputs == QualityLiteral \cup {"invalid_quality", "standard", "hd", ""}
SizeInputs == SizeLiteral \cup {"800x800", "512x512", ""}
NInputs == (0 - 1)..(MaxN + 2)

\* the HTTP responses
NoResponse == [status |-> 0, detail |-> "", metadata |-> << >>]
Json(metadata) == [status |-> 200, detail |-> "", metadata |-> << metadata >>]
ErrorResponse(status_code, detail) ==
    [status |-> status_code, detail |-> detail, metadata |-> << >>]

\* FastAPI's answer to a body that does not validate
Unprocessable == ErrorResponse(422, "validation error")

\* "not image_data_list", "not saved_metadata_list": None or an empty list
Falsy(value) == value.isNone \/ Len(value.list) = 0

\* the last element of the list
LastSaved(list) == list[Len(list)]

\* saved_metadata_list[0]
FirstSaved(list) == list[1]

\* what the stub that stands in for save_image_from_base64 returns
StubMetadata(k) ==
    ImageMetadata(Uuid(k), "p", DictParams, Filename(k, 0), Time(0, k))
PatchedSaves ==
    {NoneSavedList, SavedList(<< >>), SavedList(<< StubMetadata(1) >>),
     SavedList(<< StubMetadata(2), StubMetadata(1) >>)}

InitGenerateVars ==
    /\ posted = [prompt |-> NoPrompt, model |-> Absent, quality |-> Absent,
                 size |-> Absent, n |-> NoN]
    /\ gen_pc = "idle"
    /\ saved_list = NoneSavedList
    /\ gen_response = NoResponse
    /\ save_patched = FALSE
    /\ checked = NoCheck

\* the stand-alone validators are called, before a request is served
ValidateModelQuality(quality) ==
    /\ gen_pc = "idle"
    /\ checked' = validate_model_quality(quality)
    /\ UNCHANGED << posted, gen_pc, saved_list, gen_response, save_patched >>
    /\ UNCHANGED << retryVars, storeVars, saveVars >>
    /\ UNCHANGED notGenerate

ValidateModelSize(size) ==
    /\ gen_pc = "idle"
    /\ checked' = validate_model_size(size)
    /\ UNCHANGED << posted, gen_pc, saved_list, gen_response, save_patched >>
    /\ UNCHANGED << retryVars, storeVars, saveVars >>
    /\ UNCHANGED notGenerate

ValidateModelN(n) ==
    /\ gen_pc = "idle"
    /\ checked' = validate_model_n(n)
    /\ UNCHANGED << posted, gen_pc, saved_list, gen_response, save_patched >>
    /\ UNCHANGED << retryVars, storeVars, saveVars >>
    /\ UNCHANGED notGenerate

\* a request is posted: FastAPI builds GenerateImageRequest from the body and
\* answers 422 when that fails; otherwise handle_generate_image runs up to
\* "await openai_service.generate_image_from_prompt(...)"
PostGenerate(body) ==
    /\ gen_pc \in {"idle", "answered"}
    /\ attempt_state = "idle"
    /\ posted' = body
    /\ saved_list' = NoneSavedList
    /\ IF ~GenerateImageRequest(body).ok
       THEN /\ gen_pc' = "answered"
            /\ gen_response' = Unprocessable
            /\ UNCHANGED retryVars
       ELSE /\ gen_pc' = "generate"
            /\ gen_response' = NoResponse
            /\ fn' = Generate
            /\ attempt_number' = 1
            /\ attempt_state' = "attempt"
            /\ UNCHANGED << upstream_calls, outcomes, result, waits >>
    /\ checked' = NoCheck
    /\ UNCHANGED save_patched
    /\ UNCHANGED << storeVars, saveVars >>
    /\ UNCHANGED notGenerate

\* generate_image_from_prompt raised: "except Exception"
GenerateRaised ==
    /\ gen_pc = "generate"
    /\ attempt_state = "raised"
    /\ gen_pc' = "answered"
    /\ gen_response' =
          ErrorResponse(500, "An unexpected error occurred during image generation.")
    /\ UNCHANGED << posted, saved_list, save_patched, checked >>
    /\ UNCHANGED << retryVars, storeVars, saveVars >>
    /\ UNCHANGED notGenerate

\* generate_image_from_prompt returned (image_data_list, revised_prompt): the
\* handler answers 500 when the list is falsy and calls save_image_from_base64
\* otherwise
GenerateReturned ==
    /\ gen_pc = "generate"
    /\ attempt_state = "returned"
    /\ LET image_data_list ==
              [isNone |-> result.value.isNone, list |-> result.value.image_data_list]
           request == GenerateImageRequest(posted).request
       IN  IF Falsy(image_data_list)
           THEN /\ gen_pc' = "answered"
                /\ gen_response' = ErrorResponse(500, "Image generation failed.")
                /\ UNCHANGED saveVars
           ELSE /\ gen_pc' = "save"
                /\ gen_response' = gen_response
                /\ IF save_patched
                   THEN UNCHANGED saveVars
                   ELSE /\ saves' = saves + 1
                        /\ save_pc' = "loop"
                        /\ save_args' =
                              [image_data_list |-> image_data_list.list,
                               prompt |-> request.prompt,
                               revised_prompt |-> NoneValue,
                               parameters |-> DictParams]
                        /\ idx' = 0
                        /\ metadata_list' = << >>
                        /\ save_result' = NoneSavedList
                        /\ fault' = "none"
                        /\ call_files' = {}
                        /\ UNCHANGED uuids
    /\ UNCHANGED << posted, saved_list, save_patched, checked >>
    /\ UNCHANGED << retryVars, storeVars >>
    /\ UNCHANGED notGenerate

\* save_image_from_base64 returned saved_metadata_list: 500 when it is falsy,
\* saved_metadata_list[0] otherwise
SaveReturned(saved) ==
    /\ gen_pc = "save"
    /\ IF save_patched THEN saved \in PatchedSaves
       ELSE save_pc = "returned" /\ saved = save_result
    /\ saved_list' = saved
    /\ gen_pc' = "answered"
    /\ gen_response' =
          IF Falsy(saved)
          THEN ErrorResponse(500, "Failed to process generated image.")
          ELSE Json(FirstSaved(saved.list))
    /\ UNCHANGED << posted, save_patched, checked >>
    /\ UNCHANGED << retryVars, storeVars, saveVars >>
    /\ UNCHANGED notGenerate

NextGenerate ==
    \/ \E quality \in QualityInputs : ValidateModelQuality(quality)
    \/ \E size \in SizeInputs : ValidateModelSize(size)
    \/ \E n \in NInputs : ValidateModelN(n)
    \/ \E body \in Bodies : PostGenerate(body)
    \/ \E outcome \in UpstreamOutcomes : Attempt(outcome)
    \/ Sleep
    \/ GenerateRaised
    \/ GenerateReturned
    \/ \E write_fault \in WriteFaults : SaveElement(write_fault)
    \/ \E saved \in PatchedSaves \cup {save_result} : SaveReturned(saved)

----------------------------------------------------------------------------
(* POST /api/edit: the routers the application mounts (app/main.py,          *)
(* app/routes/editing.py) and the handlers handle_edit_image and             *)
(* handle_edit_image_stream with their file checks                           *)
(* (app/routes/editing_routes.py)                                            *)

\* ALLOWED_IMAGE_TYPES = ["image/png"]
ALLOWED_IMAGE_TYPES == << "image/png" >>

\* MAX_FILE_SIZE = 4 * 1024 * 1024
MAX_FILE_SIZE == 4 * 1024 * 1024

\* an uploaded file is known by its content type and its length in bytes
UploadFile(content_type, size) ==
    [present |-> TRUE, content_type |-> content_type, size |-> size]
NoFile == [present |-> FALSE, content_type |-> "", size |-> 0]

Uploads ==
    {UploadFile("image/png", size) : size \in {1, MAX_FILE_SIZE, MAX_FILE_SIZE + 1}}
    \cup {UploadFile("image/jpeg", 1)}

\* the multipart forms posted
Forms ==
    [prompt : {NoPrompt, Prompt(MinPromptLength), Prompt(MaxPromptLength + 1)},
     size : {Absent, "invalid_size"},
     quality : {"auto", "invalid_quality"},
     n : {NoN, NotAnInt, IntN(MaxN + 1)},
     image : Uploads \cup {NoFile},
     mask : Uploads \cup {NoFile}]

\* the two routers: app/routes/editing.py (a placeholder, with a prefix of its
\* own) and app/routes/editing_routes.py
PlaceholderRouter ==
    [prefix |-> "/edit", routes |-> {[path |-> "/", endpoint |-> "edit_image"]}]
EditingRouter ==
    [prefix |-> "",
     routes |-> {[path |-> "/", endpoint |-> "handle_edit_image"],
                 [path |-> "/stream", endpoint |-> "handle_edit_image_stream"]}]

\* app.include_router(router, prefix=prefix): the paths the application serves
IncludeRouter(router, prefix) ==
    {[path |-> prefix \o router.prefix \o r.path, endpoint |-> r.endpoint] :
        r \in router.routes}

\* app.include_router(editing.router, prefix="/api/edit") of app/main.py
MainApp == IncludeRouter(PlaceholderRouter, "/api/edit")

\* the application of tests/test_editing_routes_router.py:
\* app.include_router(editing_router, prefix="/edit")
RouterApp == IncludeRouter(EditingRouter, "/edit")

Apps == {"main", "router"}
Mounted(app) == IF app = "main" THEN MainApp ELSE RouterApp

NoRoute == "<no route>"

\* the endpoint that serves POST path, if any
Endpoint(app, path) ==
    IF \E r \in Mounted(app) : r.path = path
    THEN (CHOOSE r \in Mounted(app) : r.path = path).endpoint
    ELSE NoRoute

\* the paths posted to
Paths ==
    {"/api/edit/", "/api/edit/stream", "/api/edit/edit/", "/edit/", "/edit/stream"}

\* FastAPI reads the parameters from the form: prompt: str = Form(...),
\* n: int = Form(1), image: UploadFile = File(...)
FormParameters(form) ==
    [ok |-> /\ form.prompt.present
            /\ (form.n.given => form.n.int)
            /\ form.image.present,
     prompt |-> form.prompt,
     size |-> WithDefault(form.size, "1024x1024"),
     quality |-> WithDefault(form.quality, "auto"),
     n |-> IF form.n.given THEN form.n ELSE IntN(1)]

\* EditImageRequest(prompt=prompt, size=size, quality=quality, n=n)
EditImageRequest(prompt, size, quality, n) ==
    /\ PromptField(prompt)
    /\ size \in SizeLiteral
    /\ quality \in QualityLiteral
    /\ NField(n)

Accepted == [ok |-> TRUE, detail |-> ""]
Rejected(detail) == [ok |-> FALSE, detail |-> detail]

\* len(image_bytes) > MAX_FILE_SIZE
TooLarge(size) == size > MAX_FILE_SIZE

validate_image_file(image) ==
    IF ~InList(image.content_type, ALLOWED_IMAGE_TYPES)
    THEN Rejected("Invalid image file type")
    ELSE IF TooLarge(image.size)
    THEN Rejected("Image file size exceeds limit")
    ELSE Accepted

validate_mask_file(mask) ==
    IF ~mask.present THEN Accepted
    ELSE IF ~InList(mask.content_type, ALLOWED_IMAGE_TYPES)
    THEN Rejected("Invalid mask file type")
    ELSE IF TooLarge(mask.size)
    THEN Rejected("Mask file size exceeds limit")
    ELSE Accepted

\* what either handler does before it turns to the upstream API: the response
\* that ends the request, or status 0 when the request goes on
EditChecks(form) ==
    LET p == FormParameters(form)
    IN  IF ~p.ok THEN Unprocessable
        ELSE IF ~EditImageRequest(p.prompt, p.size, p.quality, p.n)
        THEN ErrorResponse(422, "ValidationError")
        ELSE IF ~validate_image_file(form.image).ok
        THEN ErrorResponse(400, validate_image_file(form.image).detail)
        ELSE IF ~validate_mask_file(form.mask).ok
        THEN ErrorResponse(400, validate_mask_file(form.mask).detail)
        ELSE NoResponse

\* edit_image of app/routes/editing.py
edit_image(form) ==
    IF ~form.image.present THEN Unprocessable
    ELSE [status |-> 200, detail |-> "Image editing endpoint placeholder",
          metadata |-> << >>]

\* the response that carries the event stream
Streaming == [status |-> 200, detail |-> "text/event-stream", metadata |-> << >>]

NoForm ==
    [prompt |-> NoPrompt, size |-> Absent, quality |-> "auto", n |-> NoN,
     image |-> NoFile, mask |-> NoFile]

InitEditVars ==
    /\ edit_app = "main"
    /\ edit_path = ""
    /\ edit_form = NoForm
    /\ edit_pc = "idle"
    /\ edit_saved = NoneSavedList
    /\ edit_response = NoResponse

\* a form is posted to path: Starlette looks for the route; FastAPI reads the
\* parameters; the handler checks the request and the files and, for
\* handle_edit_image, runs up to "await edit_image_from_prompt(...)"
PostEdit(path, posted_form) ==
    /\ edit_pc = "idle"
    /\ attempt_state = "idle"
    /\ edit_path' = path
    /\ edit_form' = posted_form
    /\ LET endpoint == Endpoint(edit_app, path)
           checks == EditChecks(posted_form)
       IN  IF endpoint = NoRoute
           THEN /\ edit_pc' = "answered"
                /\ edit_response' = ErrorResponse(404, "Not Found")
                /\ UNCHANGED retryVars
           ELSE IF endpoint = "edit_image"
           THEN /\ edit_pc' = "answered"
                /\ edit_response' = edit_image(posted_form)
                /\ UNCHANGED retryVars
           ELSE IF checks.status # 0
           THEN /\ edit_pc' = "answered"
                /\ edit_response' = checks
                /\ UNCHANGED retryVars
           ELSE IF endpoint = "handle_edit_image_stream"
           THEN /\ edit_pc' = "streaming"
                /\ edit_response' = Streaming
                /\ UNCHANGED retryVars
           ELSE /\ edit_pc' = "edit"
                /\ edit_response' = NoResponse
                /\ fn' = Edit
                /\ attempt_number' = 1
                /\ attempt_state' = "attempt"
                /\ UNCHANGED << upstream_calls, outcomes, result, waits >>
    /\ UNCHANGED << edit_app, edit_saved >>
    /\ UNCHANGED << storeVars, saveVars, generateVars >>
    /\ UNCHANGED notEdit

\* edit_image_from_prompt raised: "except Exception"
EditRaised ==
    /\ edit_pc = "edit"
    /\ attempt_state = "raised"
    /\ edit_pc' = "answered"
    /\ edit_response' =
          ErrorResponse(500, "An unexpected error occurred during image editing.")
    /\ UNCHANGED << edit_app, edit_path, edit_form, edit_saved >>
    /\ UNCHANGED << retryVars, storeVars, saveVars, generateVars >>
    /\ UNCHANGED notEdit

\* edit_image_from_prompt returned edited_image_data_list: 500 when it is
\* falsy, the call of save_image_from_base64 otherwise
EditReturned ==
    /\ edit_pc = "edit"
    /\ attempt_state = "returned"
    /\ LET edited_image_data_list ==
              [isNone |-> result.value.isNone, list |-> result.value.image_data_list]
       IN  IF Falsy(edited_image_data_list)
           THEN /\ edit_pc' = "answered"
                /\ edit_response' =
                      ErrorResponse(500, "Image editing failed via OpenAI API.")
                /\ UNCHANGED saveVars
           ELSE /\ edit_pc' = "save"
                /\ edit_response' = edit_response
                /\ IF save_patched
                   THEN UNCHANGED saveVars
                   ELSE /\ saves' = saves + 1
                        /\ save_pc' = "loop"
                        /\ save_args' =
                              [image_data_list |-> edited_image_data_list.list,
                               prompt |-> edit_form.prompt,
                               revised_prompt |-> NoneValue,
                               parameters |-> DictParams]
                        /\ idx' = 0
                        /\ metadata_list' = << >>
                        /\ save_result' = NoneSavedList
                        /\ fault' = "none"
                        /\ call_files' = {}
                        /\ UNCHANGED uuids
    /\ UNCHANGED << edit_app, edit_path, edit_form, edit_saved >>
    /\ UNCHANGED << retryVars, storeVars, generateVars >>
    /\ UNCHANGED notEdit

\* save_image_from_base64 returned saved_metadata_list: 500 when it is falsy,
\* saved_metadata_list[0] otherwise
EditSaveReturned(saved) ==
    /\ edit_pc = "save"
    /\ IF save_patched THEN saved \in PatchedSaves
       ELSE save_pc = "returned" /\ saved = save_result
    /\ edit_saved' = saved
    /\ edit_pc' = "answered"
    /\ edit_response' =
          IF Falsy(saved)
          THEN ErrorResponse(500, "Failed to process edited image.")
          ELSE Json(FirstSaved(saved.list))
    /\ UNCHANGED << edit_app, edit_path, edit_form >>
    /\ UNCHANGED << retryVars, storeVars, saveVars, generateVars >>
    /\ UNCHANGED notEdit

NextEdit ==
    \/ /\ edit_pc = "idle"
       /\ \E path \in Paths, posted_form \in Forms : PostEdit(path, posted_form)
    \/ \E outcome \in UpstreamOutcomes : Attempt(outcome)
    \/ Sleep
    \/ EditRaised
    \/ EditReturned
    \/ \E write_fault \in WriteFaults : SaveElement(write_fault)
    \/ \E saved \in PatchedSaves \cup {save_result} : EditSaveReturned(saved)

----------------------------------------------------------------------------
(* Specifications: one per subsystem, the others held at their initial state *)

\* no stream is open
InitStreamIdle ==
    /\ mode = "route"
    /\ stream_fn = Generate
    /\ InitServiceVars
    /\ InitRouteVars

InitLimiter ==
    /\ max_requests \in Limits
    /\ window_seconds \in Windows
    /\ InitLimiterVars
    /\ InitRetryVars
    /\ InitStreamIdle
    /\ InitStoreVars
    /\ InitSaveVars
    /\ InitGenerateVars
    /\ InitEditVars

SpecLimiter == InitLimiter /\ [][NextLimiter]_vars

InitRetry ==
    /\ max_requests = 0
    /\ window_seconds = 1
    /\ InitLimiterVars
    /\ InitRetryVars
    /\ InitStreamIdle
    /\ InitStoreVars
    /\ InitSaveVars
    /\ InitGenerateVars
    /\ InitEditVars

SpecRetry == InitRetry /\ [][NextRetry]_vars

InitStream ==
    /\ max_requests = 0
    /\ window_seconds = 1
    /\ InitLimiterVars
    /\ InitRetryVars
    /\ mode \in {"route", "stub", "direct"}
    /\ stream_fn \in {Generate, Edit}
    /\ InitServiceVars
    /\ InitRouteVars
    /\ InitStoreVars
    /\ InitSaveVars
    /\ InitGenerateVars
    /\ InitEditVars

SpecStream == InitStream /\ [][NextStream]_vars

InitStore ==
    /\ max_requests = 0
    /\ window_seconds = 1
    /\ InitLimiterVars
    /\ InitRetryVars
    /\ InitStreamIdle
    /\ InitStoreVars
    /\ InitSaveVars
    /\ InitGenerateVars
    /\ InitEditVars

SpecStore == InitStore /\ [][NextStore]_vars

\* the images directory is empty when the first image is saved
InitSave ==
    /\ max_requests = 0
    /\ window_seconds = 1
    /\ InitLimiterVars
    /\ InitRetryVars
    /\ InitStreamIdle
    /\ rows = {}
    /\ files = << >>
    /\ db_ok = TRUE
    /\ reply = NoReply
    /\ InitSaveVars
    /\ InitGenerateVars
    /\ InitEditVars

SpecSave == InitSave /\ [][NextSave]_vars

\* the server has started on an empty gallery; the save step is the service's
\* own or a stub
InitGenerate ==
    /\ max_requests = 0
    /\ window_seconds = 1
    /\ InitLimiterVars
    /\ InitRetryVars
    /\ InitStreamIdle
    /\ rows = {}
    /\ files = << >>
    /\ db_ok = TRUE
    /\ reply = NoReply
    /\ InitSaveVars
    /\ posted = [prompt |-> NoPrompt, model |-> Absent, quality |-> Absent,
                 size |-> Absent, n |-> NoN]
    /\ gen_pc = "idle"
    /\ saved_list = NoneSavedList
    /\ gen_response = NoResponse
    /\ save_patched \in BOOLEAN
    /\ checked = NoCheck
    /\ InitEditVars

SpecGenerate == InitGenerate /\ [][NextGenerate]_vars

\* the request goes to the application of app/main.py, or to one that mounts
\* editing_routes.router alone
InitEdit ==
    /\ max_requests = 0
    /\ window_seconds = 1
    /\ InitLimiterVars
    /\ InitRetryVars
    /\ InitStreamIdle
    /\ rows = {}
    /\ files = << >>
    /\ db_ok = TRUE
    /\ reply = NoReply
    /\ InitSaveVars
    /\ posted = [prompt |-> NoPrompt, model |-> Absent, quality |-> Absent,
                 size |-> Absent, n |-> NoN]
    /\ gen_pc = "idle"
    /\ saved_list = NoneSavedList
    /\ gen_response = NoResponse
    /\ save_patched \in BOOLEAN
    /\ checked = NoCheck
    /\ edit_app \in Apps
    /\ edit_path = ""
    /\ edit_form = NoForm
    /\ edit_pc = "idle"
    /\ edit_saved = NoneSavedList
    /\ edit_response = NoResponse

SpecEdit == InitEdit /\ [][NextEdit]_vars

----------------------------------------------------------------------------
(* Rate limiter: properties *)

Admitted(identifier) ==
    {i \in 1..Len(history) :
        history[i].allowed /\ history[i].identifier = identifier}

Min(a, b) == IF a <= b THEN a ELSE b

InCritical ==
    Cardinality({t \in Tasks : pc[t] \in {"prune", "decide"}})
        + (IF cleanup = "locked" THEN 1 ELSE 0)

\* every call so far is for this identifier and they all fall in one window
Burst(identifier) ==
    /\ history # << >>
    /\ \A i \in 1..Len(history) : history[i].identifier = identifier
    /\ history[Len(history)].at - history[1].at < window_seconds
    /\ ~shortCleanup

AdmittedTimes(identifier) ==
    LET admitted == SelectSeq(history,
                       LAMBDA h : h.allowed /\ h.identifier = identifier)
    IN  [i \in 1..Len(admitted) |-> admitted[i].at]

\* C2: the locked sections of check_rate_limit and cleanup_old_entries exclude
\* one another; of N interleaved calls for one identifier within one window on an
\* empty history exactly min(N, max_requests) return True, and while the window is
\* open the stored list is exactly the call times of those, once each.
C2_LockedBurst ==
    /\ InCritical <= 1
    /\ (lock = NoHolder) <=> (InCritical = 0)
    /\ \A identifier \in Identifiers :
          Burst(identifier) =>
             /\ Cardinality(Admitted(identifier))
                   = Min(Len(history), max_requests)
             /\ now - history[1].at < window_seconds =>
                   Stored(requests, identifier) = AdmittedTimes(identifier)

\* C2 witness: three calls for one identifier in one window, two admitted and one
\* denied, and a cleanup holding the lock.
C2_Witness ==
    /\ \E identifier \in Identifiers : Burst(identifier)
    /\ Len(history) = 3
    /\ max_requests = 2
    /\ ~history[3].allowed
    /\ cleanup = "locked"

\* C3: the wrapped endpoint is invoked exactly once for an admitted request and
\* not at all for a request that is not admitted, which is answered 429.
C3_WrapperDispatch ==
    \A i \in 1..Len(history) :
        /\ history[i].allowed =>
              history[i].invoked = 1 /\ history[i].status = "endpoint"
        /\ ~history[i].allowed =>
              history[i].invoked = 0 /\ history[i].status = "429"

\* C3 witness: one request was admitted and a later one of the same client denied.
C3_Witness ==
    \E i, j \in 1..Len(history) :
        /\ i < j
        /\ history[i].identifier = history[j].identifier
        /\ history[i].allowed /\ history[i].invoked = 1
        /\ ~history[j].allowed /\ history[j].status = "429"

\* how often timestamp ts occurs in the list
Occurrences(timestamps, ts) ==
    Cardinality({i \in 1..Len(timestamps) : timestamps[i] = ts})

\* what cleanup_old_entries(older_than_seconds) is to leave of the map before
OnlyNewerLeft(before, after, cutoff) ==
    /\ DOMAIN after \subseteq DOMAIN before
    /\ \A k \in DOMAIN after :
          /\ after[k] # << >>
          /\ \A i \in 1..Len(after[k]) : after[k][i] > cutoff
          /\ \A ts \in 0..MaxTime :
                Occurrences(after[k], ts)
                   = IF ts > cutoff THEN Occurrences(before[k], ts) ELSE 0
          /\ \A i, j \in 1..Len(after[k]) : i < j => after[k][i] <= after[k][j]
    /\ \A k \in DOMAIN before :
          (k \notin DOMAIN after) <=>
             \A i \in 1..Len(before[k]) : before[k][i] <= cutoff

\* C23: after cleanup_old_entries(older_than_seconds) returns, every identifier
\* still present maps to a non-empty list that holds exactly the timestamps
\* stored before that are newer than now - older_than_seconds, and the
\* identifiers whose timestamps were all older are removed.
C23_CleanupKeepsNewer ==
    [][\A older \in 0..MaxOlderThan :
          CleanupBody(older) => OnlyNewerLeft(requests, requests', now - older)]_vars

\* C23 witness: a cleanup removed one identifier and cut the list of the other,
\* dropping a timestamp that was still inside the window of check_rate_limit.
C23_Witness ==
    \E i, j, k \in 1..Len(history) :
        /\ history[i].allowed /\ history[j].allowed /\ history[k].allowed
        /\ history[i].identifier = history[j].identifier
        /\ history[k].identifier # history[i].identifier
        /\ history[i].at < history[j].at
        /\ history[i].at > now - window_seconds
        /\ Stored(requests, history[i].identifier) = << history[j].at >>
        /\ history[k].identifier \notin DOMAIN requests
        /\ cleanup = "sleep"

\* C28: check_rate_limit(identifier) leaves the timestamps of every other
\* identifier as they were, and a call that returns False records nothing for
\* its own identifier: its list after the call is exactly the unexpired part of
\* its list before the call.
C28_CheckFrame ==
    [][\A t \in Tasks :
          LET identifier == ClientIp(cur[t].client)
              before == Stored(requests, identifier)
              after == Stored(requests', identifier)
              others == \A k \in Identifiers \ {identifier} :
                           Stored(requests', k) = Stored(requests, k)
          IN  /\ CheckPrune(t) =>
                    /\ others
                    /\ after = SelectSeq(before,
                                         LAMBDA ts : ts > now - window_seconds)
              /\ CheckDecide(t) =>
                    /\ others
                    /\ ~history'[Len(history')].allowed => after = before
              /\ (pc[t] = "decide" /\ pc'[t] = "decide") => requests' = requests
      ]_vars

\* C28 witness: a call for one identifier was denied while the other identifier
\* had a timestamp stored; both lists are as they were before the denied call.
C28_Witness ==
    /\ \A t \in Tasks : pc[t] = "idle"
    /\ Len(history) = 3
    /\ history[1].allowed /\ history[2].allowed /\ ~history[3].allowed
    /\ history[1].identifier # history[2].identifier
    /\ history[3].identifier = history[2].identifier
    /\ Stored(requests, history[2].identifier) = << history[2].at >>
    /\ Stored(requests, history[1].identifier) = << history[1].at >>

\* the oldest timestamp of a non-empty list
Oldest(timestamps) ==
    CHOOSE ts \in {timestamps[i] : i \in 1..Len(timestamps)} :
        \A i \in 1..Len(timestamps) : ts <= timestamps[i]

\* C29: with max_requests >= 1 a denied identifier recovers: once
\* window_seconds have elapsed since its oldest counted request (a timestamp
\* exactly window_seconds old counts no longer), the next check_rate_limit for
\* it returns True, whatever calls were denied in between.
C29_Recovers ==
    [][\A t \in Tasks :
          LET identifier == ClientIp(cur[t].client)
              before == Stored(requests, identifier)
          IN  /\ ( /\ CheckPrune(t)
                   /\ max_requests >= 1
                   /\ before # << >>
                   /\ Oldest(before) <= now - window_seconds )
                 => Len(Stored(requests', identifier)) < max_requests
              /\ ( /\ pc[t] = "decide"
                   /\ Len(before) < max_requests )
                 => \/ pc'[t] = "decide" /\ requests' = requests
                    \/ /\ CheckDecide(t)
                       /\ history'[Len(history')].identifier = identifier
                       /\ history'[Len(history')].allowed
      ]_vars

\* a denied call leaves the oldest counted request where it is, and the list
\* never holds more than max_requests timestamps when max_requests >= 1
C29_CountedWithinLimit ==
    max_requests >= 1 =>
       \A identifier \in Identifiers :
          Len(Stored(requests, identifier)) <= max_requests

\* C29 witness: an identifier was admitted, denied inside the window, and
\* admitted again by the call made exactly window_seconds after the first.
C29_Witness ==
    /\ max_requests >= 1
    /\ \E i, j, k \in 1..Len(history) :
          /\ i < j /\ j < k
          /\ history[i].identifier = history[j].identifier
          /\ history[j].identifier = history[k].identifier
          /\ history[i].allowed /\ ~history[j].allowed /\ history[k].allowed
          /\ history[j].at < history[i].at + window_seconds
          /\ history[k].at = history[i].at + window_seconds
          /\ window_seconds = 2

\* the list that would be stored for the identifier after the first n calls of
\* the history had cleanup_old_entries never run
RECURSIVE WithoutCleanup(_, _)
WithoutCleanup(identifier, n) ==
    IF n = 0 THEN << >>
    ELSE LET call == history[n]
             earlier == WithoutCleanup(identifier, n - 1)
             kept == Unexpired(earlier, WindowStart(call.at, window_seconds))
         IN  IF call.identifier # identifier THEN earlier
             ELSE Recorded(kept, ~LimitExceeded(kept, max_requests), call.at)

\* what the n-th call of the history would have returned without any cleanup
ResultWithoutCleanup(n) ==
    LET call == history[n]
        earlier == WithoutCleanup(call.identifier, n - 1)
    IN  ~LimitExceeded(Unexpired(earlier, WindowStart(call.at, window_seconds)),
                       max_requests)

\* every call returned what it would have returned without any cleanup
SameResults ==
    \A n \in 1..Len(history) : history[n].allowed = ResultWithoutCleanup(n)

\* C30: running cleanup_old_entries with its default older_than_seconds (3600,
\* as periodic_cleanup does) at any point between calls of check_rate_limit
\* never changes the result of a later check_rate_limit call, for every
\* max_requests and window_seconds. The cutoff of a cleanup stands to
\* window_seconds as 3600 does to the window in use.
C30_CleanupChangesNoResult == SameResults

\* what holds: the cleanups whose older_than_seconds is not below
\* window_seconds change no result
C30_HarmlessWhenNotShorter == ~shortCleanup => SameResults

\* a cleanup with older_than_seconds below window_seconds removed a timestamp
\* that still counted, and the next call was admitted where it would have been
\* denied
C30_WitnessAdmittedAfterCleanup ==
    /\ shortCleanup
    /\ max_requests >= 1
    /\ \E n \in 1..Len(history) :
          history[n].allowed /\ ~ResultWithoutCleanup(n)

\* a cleanup with older_than_seconds not below window_seconds removed an
\* identifier, and the results are those without it
C30_WitnessHarmlessCleanup ==
    /\ ~shortCleanup
    /\ Len(history) = 3
    /\ \E i \in 1..Len(history) :
          history[i].allowed /\ history[i].identifier \notin DOMAIN requests
    /\ \E n \in 1..Len(history) : ~history[n].allowed

----------------------------------------------------------------------------
(* Retried upstream calls: properties *)

RaisedRetryable(outcome) == outcome.raised /\ RetryIf(outcome.exc)

\* an APIError that is no RateLimitError, or an exception other than
\* RateLimitError, httpx.TimeoutException and httpx.NetworkError
RaisedNotRetryable(outcome) == outcome.raised /\ ~RetryIf(outcome.exc)

C4_WitnessReraise ==
    /\ attempt_state = "raised"
    /\ upstream_calls = 3
    /\ result.exc = NetworkError

\* C5: when the upstream call raises an APIError that is not a RateLimitError, or
\* any exception other than RateLimitError, httpx.TimeoutException and
\* httpx.NetworkError, generate_image_from_prompt returns (None, None) and
\* edit_image_from_prompt returns None, without another upstream call and without
\* raising; exactly one call was made when the first call raised it.
C5_NoRetryReturnsNone ==
    \A i \in 1..Len(outcomes) :
        RaisedNotRetryable(outcomes[i]) =>
            /\ i = Len(outcomes)
            /\ attempt_state = "returned"
            /\ result = Returns(FailureValue(fn))
            /\ (i = 1 => upstream_calls = 1)

\* the half of C5 that holds: generate_image_from_prompt
C5_GenerateHalf == (fn = Generate) => C5_NoRetryReturnsNone

\* C21: the waits between the attempts of a retried call are 2 s, 4 s, 8 s:
\* each is at least 2 s and at most 10 s and twice the one before.
C21_Backoff ==
    \A i \in 1..Len(waits) :
        /\ waits[i] >= 2
        /\ waits[i] <= 10
        /\ waits[i] = 2 ^ i
        /\ (i > 1) => waits[i] = 2 * waits[i - 1]

\* what holds of the waits: there are at most MaxAttempts - 1 of them, one per
\* attempt that is retried, and each is the floor of 2 s
C21_WaitsAtTheFloor ==
    /\ Len(waits) <= MaxAttempts - 1
    /\ Len(waits) = IF attempt_state = "sleep" THEN attempt_number
                    ELSE IF attempt_state = "idle" THEN 0
                    ELSE attempt_number - 1
    /\ \A i \in 1..Len(waits) : waits[i] = 2

\* a call has slept twice
C21_WitnessTwoWaits == Len(waits) = 2 /\ attempt_number = 3

----------------------------------------------------------------------------
(* Streaming: properties *)

Relayed == mode \in {"route", "stub"}

ChunksOfType(type) == {i \in 1..Len(chunks) : chunks[i].type = type}

EventsOfType(type) == {k \in 1..Len(sse) : sse[k].type = type}

\* C6: the relay is pass-through: every event that derives from a chunk carries
\* that chunk's payload, the events are sent in the order of their chunks, and
\* the event for chunk i is sent before chunk i+1 is taken from the stream.
C6_PassThrough ==
    Relayed =>
       /\ \A k \in 1..Len(sse) :
             sse[k].src # 0 =>
                /\ sse[k].src \in 1..Len(chunks)
                /\ sse[k].seen = sse[k].src
                /\ LET chunk == chunks[sse[k].src]
                   IN  \/ /\ chunk.type = "progress"
                          /\ sse[k].type = "progress"
                          /\ sse[k].data = chunk.data
                       \/ /\ chunk.type = "image"
                          /\ sse[k].type = "partial_image"
                          /\ sse[k].data = chunk.data
                       \/ /\ chunk.type = "error"
                          /\ sse[k].type = "error"
       /\ \A k, l \in 1..Len(sse) :
             (k < l /\ sse[k].src # 0 /\ sse[l].src # 0) => sse[k].src < sse[l].src
       /\ \A i \in 1..(Len(chunks) - 1) :
             chunks[i].type \in {"progress", "image"} =>
                \E k \in 1..Len(sse) : sse[k].src = i

\* C6 witness: the route has relayed three chunks of the service generator, the
\* last of them the image.
C6_Witness ==
    /\ mode = "route"
    /\ Len(sse) = 3
    /\ sse[1].type = "progress" /\ sse[1].src = 1
    /\ sse[2].type = "progress" /\ sse[2].src = 2
    /\ sse[3].type = "partial_image" /\ sse[3].src = 3

\* C7: at most one complete event is ever sent; it is the last event, it is sent
\* after save_image_from_base64 returned a non-empty list, and it carries the
\* first saved metadata and the first collected image; and it is sent whenever
\* the stream yielded an image and no error chunk and the save returned a
\* non-empty list.
C7_CompleteEvent ==
    Relayed =>
       /\ Cardinality(EventsOfType("complete")) <= 1
       /\ \A k \in EventsOfType("complete") :
             /\ k = Len(sse)
             /\ route = "done"
             /\ sse[k].saved = 1
             /\ ~saved_metadata_list.isNone
             /\ saved_metadata_list.list # << >>
             /\ sse[k].metadata = saved_metadata_list.list[1]
             /\ sse[k].data = collected_image_data[1]
             /\ \E i \in ChunksOfType("image") :
                   /\ sse[k].data = chunks[i].data
                   /\ \A j \in ChunksOfType("image") : i <= j
       /\ ( /\ route = "done"
            /\ ChunksOfType("error") = {}
            /\ ChunksOfType("image") # {}
            /\ save_calls = 1
            /\ ~saved_metadata_list.isNone
            /\ saved_metadata_list.list # << >> )
          => EventsOfType("complete") # {}

\* C7 witness: two different images were collected and the complete event sent.
C7_Witness ==
    /\ Relayed
    /\ route = "done"
    /\ Len(collected_image_data) = 2
    /\ collected_image_data[1] # collected_image_data[2]
    /\ EventsOfType("complete") # {}

\* C8: an error chunk ends the relay: no later chunk is taken, nothing is saved,
\* no complete event is sent, and the response ends with exactly one error event.
C8_ErrorChunkEndsRelay ==
    Relayed =>
       \A i \in ChunksOfType("error") :
          /\ i = Len(chunks)
          /\ save_calls = 0
          /\ EventsOfType("complete") = {}
          /\ outbox.type # "complete"
          /\ Cardinality(EventsOfType("error")) <= 1
          /\ pending = NoChunk => route \in {"yield_last", "done"}
          /\ route = "done" =>
                /\ Cardinality(EventsOfType("error")) = 1
                /\ sse[Len(sse)].type = "error"
                /\ sse[Len(sse)].src = i

\* C8 witness: an image was collected, then the error chunk came and the route
\* ended.
C8_Witness ==
    /\ Relayed
    /\ route = "done"
    /\ ChunksOfType("error") # {}
    /\ collected_image_data # << >>

\* C9: the service generator yields {progress, started} first, before the
\* upstream API is called; it yields at most one image chunk, which holds the
\* result of the first output item of the completed event that holds an image
\* and is the last chunk, no upstream event being read after it.
C9_StartedFirstImageLast ==
    mode # "stub" =>
       /\ created => chunks # << >>
       /\ chunks # << >> =>
             /\ chunks[1].type = "progress"
             /\ chunks[1].data = "started"
             /\ chunks[1].beforeCreate
       /\ Cardinality(ChunksOfType("image")) <= 1
       /\ \A i \in ChunksOfType("image") :
             /\ i = Len(chunks)
             /\ events_read = chunks[i].read
             /\ image_event.type = "response.completed"
             /\ Len(image_event.output) > 0
             /\ LET k == Len(image_event.output) IN
                   /\ image_event.output[k].type = "image_generation_call"
                   /\ image_event.output[k].hasResult
                   /\ image_event.output[k].result = chunks[i].data
                   /\ chunks[i].data \notin {"", NoneValue}
                   /\ \A j \in 1..(k - 1) :
                         \/ image_event.output[j].type # "image_generation_call"
                         \/ ~image_event.output[j].hasResult
                         \/ image_event.output[j].result \in {"", NoneValue}

\* C9 witness: the generator ended after an image chunk taken from the second
\* output item, the first holding an empty result.
C9_Witness ==
    /\ mode = "direct"
    /\ svc = "done"
    /\ ChunksOfType("image") # {}
    /\ ChunksOfType("partial_image") # {}
    /\ Len(image_event.output) = 2
    /\ image_event.output[1].result = ""
    /\ events_read < MaxEvents

\* C10: when the upstream call or event stream raises during
\* generate_image_from_prompt_stream, the generator yields exactly one error
\* chunk, after every other chunk, and its next resumption raises the exception;
\* without such a failure it yields no error chunk and does not raise.
C10_ErrorChunkThenRaise ==
    (mode # "stub" /\ stream_fn = Generate) =>
       /\ failed =>
             /\ Cardinality(ChunksOfType("error")) = 1
             /\ chunks[Len(chunks)].type = "error"
             /\ svc \in {"at_error", "raised"}
       /\ ~failed =>
             /\ ChunksOfType("error") = {}
             /\ svc # "raised"

\* C10 witness: the event stream raised after chunks were yielded, and the
\* exception reached the caller iterating the generator.
C10_Witness ==
    /\ mode = "direct"
    /\ stream_fn = Generate
    /\ svc = "raised"
    /\ Len(chunks) >= 3
    /\ events_read >= 1

\* the route has finished with chunk i: it took a later chunk, or it ended
Handled(i) == i < Len(chunks) \/ route = "done"

\* C22: every partial_image chunk that the service stream yields is forwarded
\* to the client as one SSE event of type partial_image, and that event is sent
\* before the event of the final image.
C22_PartialImagesForwarded ==
    Relayed =>
       \A i \in ChunksOfType("partial_image") :
          Handled(i) =>
             /\ Cardinality({k \in 1..Len(sse) : sse[k].src = i}) = 1
             /\ \A k \in 1..Len(sse) :
                   sse[k].src = i =>
                      /\ sse[k].type = "partial_image"
                      /\ sse[k].data = chunks[i].data
                      /\ \A l \in 1..Len(sse) :
                            (sse[l].src \in ChunksOfType("image")) => k < l

\* what the routes do: no event derives from a partial_image chunk, and every
\* event of type partial_image is an image chunk, the final image, relabelled
C22_PartialImagesDropped ==
    Relayed =>
       /\ \A k \in 1..Len(sse) : sse[k].src \notin ChunksOfType("partial_image")
       /\ \A k \in EventsOfType("partial_image") :
             sse[k].src \in ChunksOfType("image")

\* the route ended after a stream of progress, partial_image and image, as the
\* streams of tests/test_streaming_routes.py are, and sent a complete event
C22_WitnessPartialThenImage ==
    /\ Relayed
    /\ route = "done"
    /\ Len(chunks) = 3
    /\ chunks[1].type = "progress"
    /\ chunks[2].type = "partial_image"
    /\ chunks[3].type = "image"
    /\ EventsOfType("complete") # {}

\* the events of the response that end it: complete or error
TerminalEvents == EventsOfType("complete") \cup EventsOfType("error")

\* C26: every SSE response of POST /api/generate/stream and POST
\* /api/edit/stream ends with exactly one terminal event, complete or error,
\* whatever chunks the service stream yields, a stream that finishes without an
\* image chunk included.
C26_OneTerminalEvent ==
    (Relayed /\ route = "done") =>
       /\ Cardinality(TerminalEvents) = 1
       /\ sse # << >>
       /\ Len(sse) \in TerminalEvents

\* what holds: a response never has two terminal events and none but its last
\* event is terminal; the responses that end without one are exactly those whose
\* stream finished without an image chunk and without an error
C26_TerminalUnlessNoImage ==
    Relayed =>
       /\ Cardinality(TerminalEvents) <= 1
       /\ \A k \in TerminalEvents : k = Len(sse) /\ route = "done"
       /\ route = "done" =>
             ( TerminalEvents = {} <=>
                  /\ svc = "done"
                  /\ ChunksOfType("image") = {}
                  /\ ChunksOfType("error") = {} )

\* the service stream of the route finished after progress and partial_image
\* chunks without an image chunk, and the response is over
C26_WitnessNoImage ==
    /\ mode = "route"
    /\ route = "done"
    /\ svc = "done"
    /\ sse # << >>
    /\ ChunksOfType("partial_image") # {}
    /\ ChunksOfType("image") = {}
    /\ TerminalEvents = {}

\* the response is over and its last event is an error event with this text
EndsWithError(text) ==
    /\ route = "done"
    /\ sse # << >>
    /\ sse[Len(sse)].type = "error"
    /\ sse[Len(sse)].error = text

\* C27: for POST /api/generate/stream and POST /api/edit/stream, when the
\* upstream API call or the upstream event stream raises an exception with
\* message m, the final SSE event has type error and its error field equals m.
C27_ErrorEventCarriesMessage ==
    (mode = "route" /\ failed /\ route = "done") => EndsWithError(ErrorMessage)

\* what holds: the response ends with one error event; that of the edit route
\* carries m, that of the generate route the text of the KeyError raised by
\* chunk["error"], the message being under chunk["data"]["error"]
C27_GenerateLosesMessage ==
    (mode = "route" /\ failed /\ route = "done") =>
       /\ Cardinality(EventsOfType("error")) = 1
       /\ stream_fn = Edit => EndsWithError(ErrorMessage)
       /\ stream_fn = Generate => EndsWithError(KeyErrorText)

\* the upstream event stream raised after events were read, and the response of
\* the edit route ended with the error event
C27_WitnessEditStreamRaised ==
    /\ mode = "route"
    /\ stream_fn = Edit
    /\ failed
    /\ events_read >= 1
    /\ EndsWithError(ErrorMessage)

\* the upstream call raised, and the response of the generate route ended
C27_WitnessGenerateCallRaised ==
    /\ mode = "route"
    /\ stream_fn = Generate
    /\ failed
    /\ events_read = 0
    /\ EndsWithError(KeyErrorText)

----------------------------------------------------------------------------
(* Gallery: properties *)

\* the metadata objects whose rows the table holds
Saved == {m \in Metadatas : ToRow(m) \in rows}

\* the ids of the rows at positions offset .. offset+limit-1 of a listing
IdsAt(listing, limit, offset) ==
    LET n == Len(listing)
        k == IF offset >= n THEN 0
             ELSE IF n - offset < limit THEN n - offset ELSE limit
    IN  [i \in 1..k |-> listing[offset + i].id]

IdsOf(list) == [i \in 1..Len(list) |-> list[i].id]

InRange(limit, offset) == limit >= 1 /\ limit <= MaxPageSize /\ offset >= 0

\* C14: get_all_image_metadata(limit, offset, sort) returns at most limit
\* records, namely the records at positions offset .. offset+limit-1 of the
\* stored metadata ordered by timestamp, descending for 'newest' and ascending
\* for 'oldest'; GET /api/images answers 422 when limit is not in 1..100 or
\* offset is negative and accepts the query otherwise.
C14_Pagination ==
    /\ (reply.op = "get_all_image_metadata" /\ reply.db) =>
          /\ Len(reply.list) <= reply.limit
          /\ \E listing \in Orderings(rows, reply.sort) :
                IdsOf(reply.list) = IdsAt(listing, reply.limit, reply.offset)
    /\ reply.op = "GET /api/images" =>
          /\ ~InRange(reply.limit, reply.offset) => reply.status = 422
          /\ (InRange(reply.limit, reply.offset) /\ reply.sort \in SortOrder) =>
                reply.status # 422

\* C14 while every stored row converts: the page is the one the claim names
C14_WhenRowsConvert ==
    (\A r \in rows : Validates(r)) => C14_Pagination

\* C15: get_all_image_metadata never raises and returns [] when the database
\* cannot be opened or queried, so GET /api/images then answers 200 with [];
\* GET /api/images answers 500 exactly when the service call itself raised,
\* which it never does.
C15_EmptyListOnDatabaseError ==
    /\ reply.op = "get_all_image_metadata" =>
          /\ reply.kind = "return"
          /\ ~reply.db => reply.list = << >>
    /\ (reply.op = "GET /api/images" /\ reply.handled) =>
          /\ reply.status # 500
          /\ ~reply.db => (reply.status = 200 /\ reply.list = << >>)

\* the half of C15 about the service function
C15_ServiceHalf ==
    reply.op = "get_all_image_metadata" => C15_EmptyListOnDatabaseError

\* C16: once save_image_metadata(md) has returned, a get_all_image_metadata
\* whose limit and offset cover the table returns a record with the id, prompt,
\* filename and parameters of md, and get_image_filename_by_id(md.id) returns
\* md.filename.
C16_SaveThenRead ==
    /\ (/\ reply.op = "get_all_image_metadata"
        /\ reply.db
        /\ reply.offset = 0
        /\ reply.limit >= Cardinality(rows)) =>
          \A md \in Saved :
             \E i \in 1..Len(reply.list) :
                /\ reply.list[i].id = md.id
                /\ reply.list[i].prompt = md.prompt
                /\ reply.list[i].filename = md.filename
                /\ reply.list[i].parameters = md.parameters
    /\ (reply.op = "get_image_filename_by_id" /\ reply.db) =>
          \A md \in Saved : md.id = reply.arg => reply.value = md.filename

\* the half of C16 about get_image_filename_by_id, and the round trip of the
\* parameters that are None, a dict with string keys or a string that does not
\* start with a bracket
C16_PlainParameters ==
    (\A md \in Saved : md.parameters \in {NoParams, DictParams, PlainStr}) =>
       C16_SaveThenRead

\* the directory a path lies in
Parent(path) == SubSeq(path, 1, Len(path) - 1)

\* C17: GET /api/images/{image_id} answers 404 'Image not found' when no row has
\* that id; else 400 'Invalid image reference' when the stored filename contains
\* '/' or '\'; else 404 'Image file not found' when the images directory holds no
\* such file; else 200 with the bytes of that file and the media type of its
\* extension.
C17_DecisionOrder ==
    (reply.op = "GET /api/images/{image_id}" /\ reply.db) =>
       LET hits == {r \in rows : r.id = reply.arg}
           filename == (CHOOSE r \in hits : TRUE).filename
           path == Append(ImagesDir, filename)
       IN  IF hits = {}
           THEN reply.status = 404 /\ reply.detail = "Image not found"
           ELSE IF HasSeparator(filename)
           THEN reply.status = 400 /\ reply.detail = "Invalid image reference"
           ELSE IF path \notin DOMAIN files
           THEN reply.status = 404 /\ reply.detail = "Image file not found"
           ELSE /\ reply.status = 200
                /\ reply.bytes = files[path]
                /\ reply.media_type = MediaType(filename)

\* C18: a file endpoint either rejects the request or serves a regular file
\* whose parent directory is the images directory; a filename with '/' or '\',
\* given as the path parameter or read from the database, is answered 400
\* without the file system being consulted.
C18_NoTraversal ==
    (reply.op \in {"GET /api/images/file/{filename}", "GET /api/images/{image_id}"}
     /\ reply.handled) =>
       /\ reply.status = 200 =>
             /\ reply.path \in DOMAIN files
             /\ Parent(reply.path) = ImagesDir
       /\ HasSeparator(reply.stored) =>
             /\ reply.status = 400
             /\ ~reply.consulted

\* the part of C18 that holds: nothing outside the images directory is served,
\* and GET /api/images/file/{filename} answers 400 to a name with a separator
C18_ServedFromImagesDir ==
    /\ reply.status = 200 /\ reply.path # << >> =>
          /\ reply.path \in DOMAIN files
          /\ Parent(reply.path) = ImagesDir
    /\ HasSeparator(reply.stored) => ~reply.consulted
    /\ reply.op = "GET /api/images/file/{filename}" => C18_NoTraversal

----------------------------------------------------------------------------
(* Persisting images: properties *)

\* every image of the call decodes
AllValid == \A i \in DOMAIN save_args.image_data_list :
               Base64Decode(save_args.image_data_list[i]).ok

\* C19: a call of save_image_from_base64 on k valid base64 images, in which no
\* decoding, file write or database write fails, returns a list of exactly k
\* ImageMetadata in input order, with pairwise distinct ids and filenames; for
\* each a file of that name in the images directory holds the decoded bytes and
\* a row with that id is stored, and its prompt is revised_prompt when that is
\* non-empty and the original prompt otherwise.
C19_SavesEveryImage ==
    (/\ save_pc = "returned"
     /\ AllValid
     /\ fault \notin {"decode", "open", "write", "metadata"}) =>
       LET list == save_result.list
           k == Len(save_args.image_data_list)
       IN  /\ ~save_result.isNone
           /\ Len(list) = k
           /\ \A i, j \in 1..Len(list) :
                 i # j => (list[i].id # list[j].id
                           /\ list[i].filename # list[j].filename)
           /\ \A i \in 1..Len(list) :
                 /\ Append(ImagesDir, list[i].filename) \in DOMAIN files
                 /\ files[Append(ImagesDir, list[i].filename)] =
                       Base64Decode(save_args.image_data_list[i]).bytes
                 /\ \E r \in rows : r.id = list[i].id
                 /\ list[i].prompt =
                       IF save_args.revised_prompt \in {NoneValue, ""}
                       THEN save_args.prompt ELSE save_args.revised_prompt

\* C19 for the empty list, the one input on which the call returns a list
C19_EmptyList ==
    save_args.image_data_list = << >> => C19_SavesEveryImage

\* C20: save_image_from_base64 never raises: when decoding an image, writing its
\* file or saving its metadata fails for any element of the list, the call
\* returns None to its caller, never a partial list.
C20_NoneOnFailure ==
    /\ save_pc \in {"idle", "loop", "returned"}
    /\ fault # "none" =>
          /\ save_pc = "returned"
          /\ save_result = NoneSavedList
    /\ (save_pc = "returned" /\ ~save_result.isNone) =>
          Len(save_result.list) = Len(save_args.image_data_list)

\* C20 witness: the second call was given two valid images, the first file was
\* written, saving its metadata raised and the call returned None.
C20_Witness ==
    /\ save_pc = "returned"
    /\ saves = 2
    /\ fault = "metadata"
    /\ Len(save_args.image_data_list) = 2
    /\ AllValid
    /\ DOMAIN files # {}
    /\ save_result = NoneSavedList

\* the files the call in progress, or the last call, created and that exist
LeftByCall == call_files \cap DOMAIN files

\* C24: when save_image_from_base64 fails with an unexpected error part-way
\* through its list (an element fails after earlier ones were saved, or the
\* metadata save of an element fails after its file was written), then after it
\* returned None no image file written by that call remains.
C24_NoFileLeftAfterFailure ==
    (save_pc = "returned" /\ fault \in {"metadata", "await"}) =>
        /\ save_result = NoneSavedList
        /\ LeftByCall = {}

\* what the except clause does: it removes the files of metadata_list alone, so
\* the file of the element whose metadata save raised stays, with its bytes
C24_FailingElementsFileStays ==
    (save_pc = "returned" /\ fault \in {"metadata", "await"}) =>
        /\ save_result = NoneSavedList
        /\ \E path \in call_files :
              /\ LeftByCall = {path}
              /\ path = Append(ImagesDir, Filename(uuids - 1, idx))
              /\ files[path] = Base64Decode(save_args.image_data_list[idx + 1]).bytes
        /\ \A i \in 1..Len(metadata_list) :
              Append(ImagesDir, metadata_list[i].filename) \notin DOMAIN files

\* the database was broken when the metadata of an element was to be saved: the
\* call returned None after it had written the element's file
C24_WitnessMetadataRaised ==
    /\ save_pc = "returned"
    /\ fault = "metadata"
    /\ save_result = NoneSavedList
    /\ call_files # {}

\* the rows that name the file at this path of the images directory
RowsNaming(path) == {row \in rows : Append(ImagesDir, row.filename) = path}

\* C25: after any sequence of calls of save_image_from_base64, every row of the
\* table names a file that exists in the images directory, and every file that
\* the function left there is named by exactly one row.
C25_RowsAndFilesAgree ==
    save_pc \in {"idle", "returned"} =>
       /\ \A row \in rows : Append(ImagesDir, row.filename) \in DOMAIN files
       /\ \A path \in DOMAIN files : Cardinality(RowsNaming(path)) = 1

\* what holds: every row names an existing file and no file is named by two
\* rows; a file without a row is left by a call whose file write or metadata
\* save raised
C25_EveryRowHasItsFile ==
    /\ \A row \in rows : Append(ImagesDir, row.filename) \in DOMAIN files
    /\ \A path \in DOMAIN files : Cardinality(RowsNaming(path)) <= 1
    /\ (save_pc = "returned" /\ fault \in {"none", "decode", "open", "await"}) =>
          \A path \in LeftByCall : Cardinality(RowsNaming(path)) = 1

\* two calls have returned and left a file with a row and a file without one
C25_WitnessOrphanFile ==
    /\ save_pc = "returned"
    /\ saves = 2
    /\ \E path \in DOMAIN files : RowsNaming(path) = {}
    /\ \E path \in DOMAIN files : RowsNaming(path) # {}

----------------------------------------------------------------------------
(* POST /api/generate: properties *)

\* generate_image_from_prompt returned a list that is not empty
Generated ==
    /\ result.kind = "return"
    /\ ~result.value.isNone
    /\ Len(result.value.image_data_list) > 0

\* save_image_from_base64 returned a list that is not empty
SavedSome == ~saved_list.isNone /\ Len(saved_list.list) > 0

\* C11: a valid request to POST /api/generate is answered 200, with the
\* metadata of the first saved image, exactly when generate_image_from_prompt
\* returned a non-empty list and save_image_from_base64 returned a non-empty
\* list; every other answer is 500, with 'An unexpected error occurred during
\* image generation.' when the generation raised (also after the last retry),
\* 'Image generation failed.' when the image list is None or empty, and
\* 'Failed to process generated image.' when saving returned None or an empty
\* list.
C11_GenerateAnswers ==
    (gen_pc = "answered" /\ gen_response.status # 422) =>
        /\ gen_response.status \in {200, 500}
        /\ (gen_response.status = 200) <=> (Generated /\ SavedSome)
        /\ (gen_response.status = 200) =>
              gen_response.metadata = << saved_list.list[1] >>
        /\ (gen_response.status = 500) =>
              gen_response.detail =
                 IF result.kind = "raise"
                 THEN "An unexpected error occurred during image generation."
                 ELSE IF ~Generated THEN "Image generation failed."
                 ELSE "Failed to process generated image."

\* two images were generated and saved, and the answer carries the first
C11_Witness ==
    /\ gen_pc = "answered"
    /\ gen_response.status = 200
    /\ Len(result.value.image_data_list) = 2
    /\ Len(saved_list.list) = 2
    /\ gen_response.metadata = << saved_list.list[1] >>

\* the three 500 answers are all given: after the retries are used up, after
\* an empty image list, and after the service's own save step
C11_WitnessAfterRetries ==
    /\ gen_pc = "answered"
    /\ attempt_number = MaxAttempts
    /\ result.kind = "raise"
    /\ gen_response.detail = "An unexpected error occurred during image generation."

C11_WitnessEmptyList ==
    /\ gen_pc = "answered"
    /\ result.kind = "return"
    /\ ~result.value.isNone
    /\ gen_response.detail = "Image generation failed."

C11_WitnessSaveFailed ==
    /\ gen_pc = "answered"
    /\ ~save_patched
    /\ gen_response.detail = "Failed to process generated image."

\* a body's field is left out, or has one of the allowed values
Given(value, allowed) == value = Absent \/ value \in allowed

\* the body meets the conditions of the request model
Conforms ==
    /\ posted.prompt.present
    /\ posted.prompt.len >= 1
    /\ posted.prompt.len <= 4000
    /\ Given(posted.quality, {"auto", "low", "medium", "high"})
    /\ Given(posted.size, {"1024x1024", "1792x1024", "1024x1792"})
    /\ posted.n.given => (posted.n.int /\ posted.n.value >= 1 /\ posted.n.value <= 10)

\* the request is inside handle_generate_image, or was answered by it
ReachedHandler ==
    \/ gen_pc \in {"generate", "save"}
    \/ gen_pc = "answered" /\ gen_response.status # 422

C12_WitnessAtTheBounds ==
    /\ gen_pc = "generate"
    /\ posted.prompt = Prompt(4000)
    /\ posted.n = IntN(10)

C12_WitnessValidatorRefuses ==
    checked.validator = "n" /\ checked.n = 11 /\ checked.raised

----------------------------------------------------------------------------
(* POST /api/edit: properties *)

\* size, quality, n or prompt of the posted form is invalid
BadParameters ==
    \/ ~edit_form.prompt.present
    \/ edit_form.prompt.len < 1
    \/ edit_form.prompt.len > 4000
    \/ ~Given(edit_form.size, {"1024x1024", "1792x1024", "1024x1792"})
    \/ ~Given(edit_form.quality, {"auto", "low", "medium", "high"})
    \/ edit_form.n.given /\
          ~(edit_form.n.int /\ edit_form.n.value >= 1 /\ edit_form.n.value <= 10)

\* the file is no PNG, or it is longer than 4 MiB
BadFile(file) == file.content_type # "image/png" \/ file.size > 4 * 1024 * 1024

\* the status the request is to be refused with, 0 when it is to be accepted
Refusal ==
    IF BadParameters THEN 422
    ELSE IF BadFile(edit_form.image) THEN 400
    ELSE IF edit_form.mask.present /\ BadFile(edit_form.mask) THEN 400
    ELSE 0

\* the upstream API was not called and no image file or metadata row written
NothingDone ==
    /\ upstream_calls = 0
    /\ saves = 0
    /\ rows = {}
    /\ files = << >>

\* the request was refused, or went on, as the checks of the two handlers say
ChecksApplied ==
    /\ (Refusal # 0) =>
          /\ edit_pc = "answered"
          /\ edit_response.status = Refusal
          /\ NothingDone
    /\ (Refusal = 0) => edit_response.status \notin {400, 422}

\* C13: a request to POST /api/edit/ or POST /api/edit/stream with an invalid
\* size, quality, n or prompt is answered 422; otherwise one whose image is no
\* image/png or longer than 4*1024*1024 bytes is answered 400; otherwise one
\* whose mask is there and has one of these defects is answered 400; a request
\* without a mask and files of exactly 4*1024*1024 bytes are accepted; a refused
\* request calls no upstream API and writes no file and no row.
C13_EditChecks ==
    (/\ edit_app = "main"
     /\ edit_path \in {"/api/edit/", "/api/edit/stream"}
     /\ edit_pc # "idle"
     /\ edit_form.image.present) => ChecksApplied

\* where editing_routes.router is mounted, alone, the two handlers apply the
\* checks in this order
C13_RouterMountedAlone ==
    (/\ edit_app = "router"
     /\ edit_path \in {"/edit/", "/edit/stream"}
     /\ edit_pc # "idle"
     /\ edit_form.image.present) => ChecksApplied

\* the application of app/main.py answers 404 on both paths and refuses nothing
\* on its own: it serves the placeholder alone, at /api/edit/edit/
C13_MainAppServesPlaceholder ==
    (edit_app = "main" /\ edit_pc # "idle") =>
        /\ edit_pc = "answered"
        /\ NothingDone
        /\ (edit_path \in {"/api/edit/", "/api/edit/stream"}) =>
              edit_response.status = 404
        /\ (edit_response.status # 404) => edit_path = "/api/edit/edit/"

\* with the router mounted alone: an image of exactly 4 MiB and no mask is passed
\* on to the upstream API, and a mask that is too long is refused after a good
\* image
C13_WitnessAtLimit ==
    /\ edit_app = "router"
    /\ edit_path = "/edit/"
    /\ edit_form.image = UploadFile("image/png", MAX_FILE_SIZE)
    /\ ~edit_form.mask.present
    /\ upstream_calls > 0

C13_WitnessMaskRefused ==
    /\ edit_app = "router"
    /\ edit_path = "/edit/stream"
    /\ edit_form.image = UploadFile("image/png", MAX_FILE_SIZE)
    /\ edit_form.mask = UploadFile("image/png", MAX_FILE_SIZE + 1)
    /\ edit_response.status = 400
    /\ edit_response.detail = "Mask file size exceeds limit"

====
